---- MODULE Spec2Model ----
(***************************************************************************)
(* Verification model of the compile-time cores of the repository:         *)
(*   - the expression-language compiler, lib/vrl/compiler/src/compiler.rs  *)
(*   - the topology compiler,            src/config/compiler.rs            *)
(*   - the schema requirement validator,                                   *)
(*                            lib/vector-core/src/schema/requirement.rs    *)
(* and of two run-time cores:                                              *)
(*   - the journald source and its acknowledgement task,                   *)
(*                                                 src/sources/journald.rs *)
(*   - the serde form of Concurrency,                                      *)
(*                            src/sinks/util/service/concurrency.rs        *)
(* Each core has its own specification (Spec; SpecCfg, SpecCfg2 and       *)
(* SpecMacro; SpecReq; SpecJd; SpecCon); the variables of the other cores  *)
(* stay at their initial value.                                            *)
(***************************************************************************)
EXTENDS Integers, Sequences, FiniteSets, TLC

VARIABLES
    \* ---- expression compiler (Compiler::compile and its root loop) ----
    c,                  \* the Compiler struct, with the caller's ExternalEnv in c.external
    node_exprs,         \* compile_root_exprs: node_exprs
    terminated_state,   \* compile_root_exprs: terminated_state (Option)
    last,               \* the root expression compiled last, the loop state before it,
                        \* and whether compile_expr returned Some
    nroots,             \* number of root nodes consumed so far
    vpc,                \* "root" (in the loop of compile_root_exprs) | "done"
    result,             \* what Compiler::compile returned
    \* ---- topology compiler (config::compile) ----
    builder,            \* the ConfigBuilder handed to compile (mutated by the phases)
    errors,             \* compile: the errors accumulator
    expansions,         \* compile: the expansion map expand_macros returned
    cpc,                \* the phase compile is about to run, or "done" / "idle";
                        \* "again" / "done2": compile is called a second time
    cfg_result,         \* what config::compile returned
    builder0,           \* the ConfigBuilder as it was handed to compile
    first_result,       \* Option: what compile returned the first time
    hash_seed,          \* the RandomState of the process: what the iteration order
                        \* of a HashMap or HashSet would depend on
    \* ---- schema requirement validator (Requirement::validate) ----
    requirement,        \* Requirement.meaning, a BTreeMap in key order
    definition,         \* the Definition validate is given
    rq_calls,           \* number of required_meaning / optional_meaning calls made
    rq_next,            \* validate: position of the loop in self.meaning
    rq_errors,          \* validate: the errors vector
    rpc,                \* "build" | "enter" | "loop" | "done" | "idle"
    rq_result,          \* what validate returned
    \* ---- journald source (JournaldSource::run, Batch, Finalizer) ----
    batch_size,         \* JournaldSource.batch_size
    source_pc,          \* where run / run_stream stands: "run" | "first" | "more" |
                        \* "finish" | "backoff" | "stopped" | "idle"
    stream_pos,         \* the journal record stream.next() yields next
    batch,              \* the Batch being filled: events, cursor, exiting
    for_left,           \* run_stream: iterations left of `for _ in 1..batch_size`
    finalizer,          \* OrderedFinalizer: every (cursor, receiver) added, in order,
                        \* with the status its receiver holds ("pending" if none yet)
    acked,              \* number of entries ack_stream has yielded
    ack_task,           \* the task Finalizer::new spawns: "running" | "exited"
    tripwire,           \* the oneshot channel of Finalizer::new was triggered
    shutdown,           \* the system ShutdownSignal fired
    checkpointer,       \* StatefulCheckpointer: cursor, and the contents of its file
    ck_writes,          \* history: the tokens StatefulCheckpointer::set was given
    io_failed,          \* history: a write of the checkpoint file failed
    \* ---- Concurrency (Serialize / Deserialize) ----
    con_value,          \* Option: the Concurrency value that is serialized
    con_wire,           \* Option: the serde value on the wire
    con_back,           \* Option: what Deserialize returned
    kpc                 \* "serialize" | "deserialize" | "done" | "idle"

vrl_vars == <<c, node_exprs, terminated_state, last, nroots, vpc, result>>
cfg_vars == <<builder, errors, expansions, cpc, cfg_result, builder0, first_result, hash_seed>>
req_vars == <<requirement, definition, rq_calls, rq_next, rq_errors, rpc, rq_result>>
jd_vars == <<batch_size, source_pc, stream_pos, batch, for_left, finalizer,
            acked, ack_task, tripwire, shutdown, checkpointer, ck_writes, io_failed>>
con_vars == <<con_value, con_wire, con_back, kpc>>
vars == <<c, node_exprs, terminated_state, last, nroots, vpc, result,
          builder, errors, expansions, cpc, cfg_result, builder0, first_result, hash_seed,
          requirement, definition, rq_calls, rq_next, rq_errors, rpc, rq_result,
          batch_size, source_pc, stream_pos, batch, for_left, finalizer,
          acked, ack_task, tripwire, shutdown, checkpointer, ck_writes, io_failed,
          con_value, con_wire, con_back, kpc>>
\* what the steps of one core leave alone: the variables of the other cores
outside_vrl == <<cfg_vars, req_vars, jd_vars, con_vars>>
outside_cfg == <<vrl_vars, req_vars, jd_vars, con_vars>>
outside_req == <<vrl_vars, cfg_vars, jd_vars, con_vars>>
outside_jd == <<vrl_vars, cfg_vars, req_vars, con_vars>>
outside_con == <<vrl_vars, cfg_vars, req_vars, jd_vars>>

\* Longest program (number of root nodes) the expression compiler is run on.
MaxRoots == 2

(***************************************************************************)
(* Option<T> is a sequence of length at most one.                          *)
(***************************************************************************)
None == <<>>
Some(v) == <<v>>

(***************************************************************************)
(* Kinds and type definitions (value::Kind, TypeDef).  A kind is the set   *)
(* of primitive types a value may have; the empty set is "never".          *)
(***************************************************************************)
Kinds == {"bytes", "integer", "boolean", "null"}
KindAny == Kinds
KindNever == {}

TD(kind, fallible) == [kind |-> kind, fallible |-> fallible]
is_never(td) == td.kind = KindNever
is_fallible(td) == td.fallible
merge_deep(a, b) == TD(a.kind \cup b.kind, a.fallible \/ b.fallible)

(***************************************************************************)
(* LocalEnv: identifier -> Details.  A total function over Vars whose      *)
(* entries say whether the identifier is bound.                            *)
(***************************************************************************)
Vars == {"x", "y", "z", "err"}
Unbound == [def |-> FALSE, kind |-> KindNever]
Bound(kind) == [def |-> TRUE, kind |-> kind]
LocalEnvDefault == [v \in Vars |-> Unbound]
variable_idents(local) == {v \in Vars : local[v].def}
insert_variable(local, ident, kind) == [local EXCEPT ![ident] = Bound(kind)]

\* LocalEnv::apply_child_scope: self is the parent snapshot.
apply_child_scope(parent, child) ==
    [v \in Vars |-> IF parent[v].def /\ child[v].def THEN child[v] ELSE parent[v]]

\* LocalEnv::merge: per-variable union of the types of the two sides.
local_merge(self, other) ==
    [v \in Vars |->
        IF self[v].def /\ other[v].def THEN Bound(self[v].kind \cup other[v].kind)
        ELSE IF self[v].def THEN self[v]
        ELSE other[v]]

(***************************************************************************)
(* ExternalEnv target: the kind known at each path of the event.           *)
(***************************************************************************)
Paths == {"a", "b"}
RootPath == "."
ExternalDefault == [p \in Paths |-> KindAny]
\* Details::merge on the external target
external_merge(self, other) == [p \in Paths |-> self[p] \cup other[p]]

(***************************************************************************)
(* Diagnostics.                                                            *)
(***************************************************************************)
Severities == {"Bug", "Error", "Warning"}
Diag(sev, code, at) == [severity |-> sev, code |-> code, at |-> at]
\* every diagnostic of the expression module has the trait's default severity
ExprError(code, at) == Diag("Error", code, at)

(***************************************************************************)
(* AST nodes and compiled expressions share one record shape:              *)
(*   kind    the expression kind                                           *)
(*   id      identifier, path, literal kind, opcode or function name       *)
(*   id2     second identifier (the err target of an infallible assignment)*)
(*   target  "internal" | "external" | "noop" | "" (assignment/query)      *)
(*   flag    abort_on_error (call)                                         *)
(*   ps      predicate (if), lhs (op)                                      *)
(*   xs      block body, consequent block, rhs, arguments, abort message   *)
(*   ys      alternative block (empty: no else)                            *)
(*   env     the LocalEnv a compiled Block keeps (Block::new)              *)
(***************************************************************************)
Mk(kind, id, id2, target, flag, ps, xs, ys) ==
    [kind |-> kind, id |-> id, id2 |-> id2, target |-> target, flag |-> flag,
     ps |-> ps, xs |-> xs, ys |-> ys, env |-> LocalEnvDefault]

Lit(k) == Mk("literal", k, "", "", FALSE, <<>>, <<>>, <<>>)
Var(x) == Mk("variable", x, "", "", FALSE, <<>>, <<>>, <<>>)
QueryExt(p) == Mk("query", p, "", "external", FALSE, <<>>, <<>>, <<>>)
QueryVar(x) == Mk("query", x, "", "internal", FALSE, <<>>, <<>>, <<>>)
AbortNode == Mk("abort", "", "", "", FALSE, <<>>, <<>>, <<>>)
Call(f, bang, args) == Mk("call", f, "", "", bang, <<>>, args, <<>>)
OpNode(l, opcode, r) == Mk("op", opcode, "", "", FALSE, <<l>>, <<r>>, <<>>)
AssignVar(x, e) == Mk("assign", x, "", "internal", FALSE, <<>>, <<e>>, <<>>)
AssignExt(p, e) == Mk("assign", p, "", "external", FALSE, <<>>, <<e>>, <<>>)
AssignInf(okv, errv, e) == Mk("assign_infallible", okv, errv, "internal", FALSE, <<>>, <<e>>, <<>>)
BlockNode(body) == Mk("block", "", "", "", FALSE, <<>>, body, <<>>)
\* a call with a closure `f(args) -> |params| { body }`: ps holds the closure
\* variables, ys the closure block
CallClosure(f, args, params, body) ==
    Mk("call", f, "", "", FALSE, [i \in 1..Len(params) |-> Var(params[i])], args,
       <<BlockNode(body)>>)
IfNode(p, cons) == Mk("if", "", "", "", FALSE, <<p>>, <<BlockNode(cons)>>, <<>>)
IfElse(p, cons, alt) == Mk("if", "", "", "", FALSE, <<p>>, <<BlockNode(cons)>>, <<BlockNode(alt)>>)
Noop == Mk("noop", "", "", "", FALSE, <<>>, <<>>, <<>>)
Label(node) == <<node.kind, node.id>>


(***************************************************************************)
(* The function registry handed to Compiler::new (fns).  "foo" is a        *)
(* fallible function returning bytes, "bar" an infallible one returning an *)
(* integer, "get" the infallible function the compiler special-cases; any  *)
(* other identifier is undefined.                                          *)
(***************************************************************************)
FnIdents == {"foo", "bar", "get", "each"}
FnTypeDef(f) ==
    CASE f = "foo" -> TD({"bytes"}, TRUE)
      [] f = "bar" -> TD({"integer"}, FALSE)
      [] f = "each" -> TD({"null"}, FALSE)
      [] OTHER     -> TD(KindAny, FALSE)

(***************************************************************************)
(* Expression::type_def of a compiled expression under (local, external).  *)
(***************************************************************************)
RECURSIVE type_def(_, _, _)
RECURSIVE any_fallible(_, _, _)
any_fallible(exprs, local, external) ==
    \E i \in 1..Len(exprs) : is_fallible(type_def(exprs[i], local, external))

type_def(e, local, external) ==
    CASE e.kind = "literal"  -> TD({e.id}, FALSE)
      [] e.kind = "variable" ->
            TD(IF local[e.id].def THEN local[e.id].kind ELSE {"null"}, FALSE)
      [] e.kind = "query"    ->
            IF e.target = "external" THEN TD(external[e.id], FALSE)
            ELSE TD(IF local[e.id].def THEN local[e.id].kind ELSE {"null"}, FALSE)
      [] e.kind = "abort"    -> TD(KindNever, FALSE)
      [] e.kind = "noop"     -> TD({"null"}, FALSE)
      [] e.kind = "call"     ->
            LET t == FnTypeDef(e.id)
            IN  TD(t.kind, ~e.flag /\ (t.fallible \/ any_fallible(e.xs, local, external)))
      [] e.kind = "op"       ->
            LET l == type_def(e.ps[1], local, external)
                r == type_def(e.xs[1], local, external)
            IN  IF e.id = "Err" THEN TD(l.kind \cup r.kind, r.fallible)
                ELSE TD({"boolean"}, l.fallible \/ r.fallible)
      [] e.kind = "assign"   -> type_def(e.xs[1], local, external)
      [] e.kind = "assign_infallible" ->
            TD(type_def(e.xs[1], local, external).kind, FALSE)
      [] e.kind = "block"    ->
            IF e.xs = <<>> THEN TD({"null"}, FALSE)
            ELSE TD(type_def(e.xs[Len(e.xs)], e.env, external).kind,
                    any_fallible(e.xs, e.env, external))
      [] e.kind = "if"       ->
            LET t == type_def(e.xs[1], local, external)
            IN  IF e.ys = <<>> THEN TD(t.kind \cup {"null"}, t.fallible)
                ELSE merge_deep(t, type_def(e.ys[1], local, external))
      [] OTHER               -> TD({"null"}, FALSE)

(***************************************************************************)
(* The Compiler struct (compiler.rs:15-37) together with the ExternalEnv   *)
(* target the caller passes by mutable reference.                          *)
(***************************************************************************)
CompilerNew(local, external) ==
    [diagnostics |-> <<>>,
     fallible |-> FALSE,
     abortable |-> FALSE,
     local |-> local,
     external |-> external,
     external_queries |-> <<>>,
     external_assignments |-> <<>>,
     skip_missing_query_target |-> <<>>,
     fallible_expression_error |-> None]

push_diagnostic(st, d) == [st EXCEPT !.diagnostics = Append(@, d)]
InSeq(x, s) == \E i \in 1..Len(s) : s[i] = x

\* the (Option<expr>, state) pair every compile_* step yields
R(st, expr) == [st |-> st, expr |-> expr]

\* the (QueryTarget, path) key of an assignment or query target
TargetKey(target, id) ==
    IF target = "external" THEN <<"external", "", id>> ELSE <<"internal", id, RootPath>>

skip_missing_assignment_target(st, target, id) ==
    IF target = "noop" THEN st
    ELSE [st EXCEPT !.skip_missing_query_target = Append(@, TargetKey(target, id))]

\* assignment::Target::insert_type_def
insert_type_def(st, target, id, kind) ==
    IF target = "external" THEN [st EXCEPT !.external[id] = kind]
    ELSE IF target = "internal" THEN [st EXCEPT !.local = insert_variable(@, id, kind)]
    ELSE st

compile_literal(st, node) == R(st, Some(node))

\* mutant of compile_variable: an undefined variable is dropped without a diagnostic
compile_variable_Silent(st, node) ==
    IF InSeq(TargetKey("internal", node.id), st.skip_missing_query_target)
    THEN R(st, None)
    ELSE IF st.local[node.id].def
         THEN R(st, Some(Var(node.id)))
         ELSE R(st, None)

\* mutant of compile_variable: the skip list is not consulted
compile_variable_NoSkip(st, node) ==
    IF st.local[node.id].def
    THEN R(st, Some(Var(node.id)))
    ELSE R(push_diagnostic(st, ExprError("undefined_variable", Label(node))), None)

compile_variable(st, node) ==
    IF InSeq(TargetKey("internal", node.id), st.skip_missing_query_target)
    THEN R(st, None)
    ELSE IF st.local[node.id].def
         THEN R(st, Some(Var(node.id)))
         ELSE R(push_diagnostic(st, ExprError("undefined_variable", Label(node))), None)

\* mutant of compile_query: a path already tracked is not tracked again
compile_query_Dedup(st, node) ==
    IF InSeq(TargetKey(node.target, node.id), st.skip_missing_query_target)
    THEN R(st, None)
    ELSE IF node.target = "external"
         THEN R([st EXCEPT !.external_queries =
                     IF InSeq(node.id, @) THEN @ ELSE Append(@, node.id)], Some(node))
         ELSE LET v == compile_variable(st, Var(node.id))
              IN  IF v.expr = None THEN v ELSE R(v.st, Some(node))

compile_query(st, node) ==
    IF InSeq(TargetKey(node.target, node.id), st.skip_missing_query_target)
    THEN R(st, None)
    ELSE IF node.target = "external"
         THEN R([st EXCEPT !.external_queries = Append(@, node.id)], Some(node))
         ELSE LET v == compile_variable(st, Var(node.id))
              IN  IF v.expr = None THEN v ELSE R(v.st, Some(node))

\* Assignment::new: type checks of the assignment and the type it records
AssignmentNew(st, node, rhs) ==
    LET t == type_def(rhs, st.local, st.external)
        done == [node EXCEPT !.xs = <<rhs>>]
    IN  IF node.kind = "assign"
        THEN IF is_fallible(t)
             THEN R(push_diagnostic(st, ExprError("fallible_assignment", Label(node))), None)
             ELSE IF node.target = "noop"
             THEN R(push_diagnostic(st, ExprError("unnecessary_noop", Label(node))), None)
             ELSE R(insert_type_def(st, node.target, node.id, t.kind), Some(done))
        ELSE IF ~is_fallible(t)
             THEN R(push_diagnostic(st, ExprError("infallible_assignment", Label(node))), None)
             ELSE R(insert_type_def(insert_type_def(st, node.target, node.id, t.kind),
                                    "internal", node.id2, {"bytes", "null"}),
                    Some(done))

RECURSIVE compile_expr(_, _)
RECURSIVE compile_exprs_from(_, _, _, _)
RECURSIVE compile_block(_, _)
RECURSIVE compile_if_statement(_, _)
RECURSIVE compile_op(_, _)
RECURSIVE compile_assignment(_, _)
RECURSIVE compile_function_call(_, _)
RECURSIVE compile_arguments(_, _, _, _)
RECURSIVE compile_abort(_, _)

\* Each step binds the outcome of a sub-compilation as the parameter of a local
\* operator (the `let x = self.compile_..(..)?` of the source) and goes on from it.

\* compile_exprs: the loop body from node i on, exprs being the vector built so far
\* mutant of compile_exprs_from: the loop does not stop at a never-typed expression
compile_exprs_from_NoBreak(st, nodes, i, exprs) ==
    LET push(r) ==
            IF r.expr = None THEN R(r.st, None)
            ELSE compile_exprs_from(r.st, nodes, i + 1, Append(exprs, r.expr[1]))
    IN  IF i > Len(nodes) THEN R(st, Some(exprs))
        ELSE push(compile_expr(st, nodes[i]))

compile_exprs_from(st, nodes, i, exprs) ==
    LET push(r) ==
            IF r.expr = None THEN R(r.st, None)
            ELSE IF is_never(type_def(r.expr[1], r.st.local, r.st.external))
                 THEN R(r.st, Some(Append(exprs, r.expr[1])))
                 ELSE compile_exprs_from(r.st, nodes, i + 1, Append(exprs, r.expr[1]))
    IN  IF i > Len(nodes) THEN R(st, Some(exprs))
        ELSE push(compile_expr(st, nodes[i]))

compile_exprs(st, nodes) == compile_exprs_from(st, nodes, 1, <<>>)

\* mutant of compile_block: the failure path returns without restoring the scope
compile_block_LeakOnFailure(st, node) ==
    LET scoped(local_snapshot, r) ==
            LET after == [r.st EXCEPT !.local = apply_child_scope(local_snapshot, r.st.local)]
            IN  IF r.expr = None THEN R(r.st, None)
                ELSE R(after, Some([BlockNode(r.expr[1]) EXCEPT !.env = r.st.local]))
    IN  scoped(st.local, compile_exprs(st, node.xs))

compile_block(st, node) ==
    LET scoped(local_snapshot, r) ==
            LET after == [r.st EXCEPT !.local = apply_child_scope(local_snapshot, r.st.local)]
            IN  IF r.expr = None THEN R(after, None)
                ELSE R(after, Some([BlockNode(r.expr[1]) EXCEPT !.env = r.st.local]))
    IN  scoped(st.local, compile_exprs(st, node.xs))

\* compile_predicate with Predicate::new; the Result's error is pushed by the caller
compile_predicate(st, node) ==
    LET predicate(r) ==
            IF r.expr = None THEN r
            ELSE IF r.st.fallible_expression_error /= None
                 THEN R(push_diagnostic(r.st, ExprError("fallible_predicate", Label(node))), None)
                 ELSE IF type_def(r.expr[1], r.st.local, r.st.external).kind /= {"boolean"}
                 THEN R(push_diagnostic(r.st, ExprError("non_boolean_predicate", Label(node))),
                        None)
                 ELSE r
    IN  predicate(compile_expr(st, node))

\* mutant of compile_if_statement: with an else, the consequent's locals are dropped
compile_if_statement_DropConsequent(st, node) ==
    LET with_alternative(p, cons, alt) ==
            LET consequent_external == cons.st.external
            IN  IF alt.expr = None THEN alt
                ELSE R([alt.st EXCEPT
                           !.external = external_merge(consequent_external, alt.st.external)],
                       Some([node EXCEPT !.ps = p.expr, !.xs = cons.expr, !.ys = alt.expr]))
        with_consequent(p, cons) ==
            LET original_locals == p.st.local
                original_external == p.st.external
            IN  IF cons.expr = None THEN cons
                ELSE IF node.ys /= <<>>
                THEN with_alternative(p, cons,
                         compile_block([cons.st EXCEPT !.local = original_locals], node.ys[1]))
                ELSE R([cons.st EXCEPT
                           !.local = local_merge(cons.st.local, original_locals),
                           !.external = external_merge(original_external, cons.st.external)],
                       Some([node EXCEPT !.ps = p.expr, !.xs = cons.expr]))
        with_predicate(p) ==
            IF p.expr = None THEN p
            ELSE with_consequent(p, compile_block(p.st, node.xs[1]))
    IN  with_predicate(compile_predicate(st, node.ps[1]))

compile_if_statement(st, node) ==
    LET with_alternative(p, cons, alt) ==
            LET consequent_locals == cons.st.local
                consequent_external == cons.st.external
            IN  IF alt.expr = None THEN alt
                ELSE R([alt.st EXCEPT
                           !.local = local_merge(alt.st.local, consequent_locals),
                           !.external = external_merge(consequent_external, alt.st.external)],
                       Some([node EXCEPT !.ps = p.expr, !.xs = cons.expr, !.ys = alt.expr]))
        with_consequent(p, cons) ==
            LET original_locals == p.st.local
                original_external == p.st.external
            IN  IF cons.expr = None THEN cons
                ELSE IF node.ys /= <<>>
                THEN with_alternative(p, cons,
                         compile_block([cons.st EXCEPT !.local = original_locals], node.ys[1]))
                ELSE R([cons.st EXCEPT
                           !.local = local_merge(cons.st.local, original_locals),
                           !.external = external_merge(original_external, cons.st.external)],
                       Some([node EXCEPT !.ps = p.expr, !.xs = cons.expr]))
        with_predicate(p) ==
            IF p.expr = None THEN p
            ELSE with_consequent(p, compile_block(p.st, node.xs[1]))
    IN  with_predicate(compile_predicate(st, node.ps[1]))

\* mutant of compile_op: error coalescing does not clear the pending fallible error
compile_op_NoClear(st, node) ==
    LET with_rhs(l, r) ==
            IF r.expr = None THEN r
            ELSE IF node.id = "Err"
                    /\ ~is_fallible(type_def(l.expr[1], r.st.local, r.st.external))
                 THEN R(push_diagnostic(r.st, ExprError("err_infallible", Label(node))), None)
                 ELSE R(r.st, Some([node EXCEPT !.ps = l.expr, !.xs = r.expr]))
        with_lhs(l) ==
            IF l.expr = None THEN l
            ELSE with_rhs(l, compile_expr(l.st, node.xs[1]))
    IN  with_lhs(compile_expr(st, node.ps[1]))

compile_op(st, node) ==
    LET with_rhs(l, r) ==
            IF r.expr = None THEN r
            ELSE \* Op::new
                 IF node.id = "Err"
                    /\ ~is_fallible(type_def(l.expr[1], r.st.local, r.st.external))
                 THEN R(push_diagnostic(r.st, ExprError("err_infallible", Label(node))), None)
                 ELSE R(r.st, Some([node EXCEPT !.ps = l.expr, !.xs = r.expr]))
        with_lhs(l) ==
            IF l.expr = None THEN l
            ELSE with_rhs(l, compile_expr(IF node.id = "Err"
                                          THEN [l.st EXCEPT !.fallible_expression_error = None]
                                          ELSE l.st,
                                          node.xs[1]))
    IN  with_lhs(compile_expr(st, node.ps[1]))

compile_assignment(st, node) ==
    LET assigned(a) ==
            IF a.expr = None THEN a
            ELSE IF node.target = "external"
                 THEN R([a.st EXCEPT !.external_assignments = Append(@, node.id)], a.expr)
                 ELSE a
        with_expr(r) ==
            IF r.expr = None
            THEN IF node.kind = "assign"
                 THEN R(skip_missing_assignment_target(r.st, node.target, node.id), None)
                 ELSE R(skip_missing_assignment_target(
                            skip_missing_assignment_target(r.st, node.target, node.id),
                            "internal", node.id2), None)
            ELSE assigned(AssignmentNew(IF node.kind = "assign_infallible"
                                        THEN [r.st EXCEPT !.fallible_expression_error = None]
                                        ELSE r.st,
                                        node, r.expr[1]))
    IN  with_expr(compile_expr(st, node.xs[1]))

\* the arguments of a call, compiled in order up to the first that fails
compile_arguments(st, nodes, i, args) ==
    LET push(r) ==
            IF r.expr = None THEN R(r.st, None)
            ELSE compile_arguments(r.st, nodes, i + 1, Append(args, r.expr[1]))
    IN  IF i > Len(nodes) THEN R(st, Some(args))
        ELSE push(compile_expr(st, nodes[i]))

\* mutant of compile_function_call: abort_on_error sets abortable, not fallible
compile_function_call_Abortable(st, node) ==
    LET with_arguments(args) ==
            IF args.expr = None THEN args
            ELSE
            LET st1 == IF node.flag THEN [args.st EXCEPT !.abortable = TRUE] ELSE args.st
                call == [node EXCEPT !.xs = args.expr[1]]
            IN  IF node.id \notin FnIdents
                THEN R(push_diagnostic(st1, ExprError("undefined_function", Label(node))), None)
                ELSE IF node.flag /\ ~FnTypeDef(node.id).fallible
                        /\ ~any_fallible(args.expr[1], st1.local, st1.external)
                THEN R(push_diagnostic(st1, ExprError("abort_infallible", Label(node))), None)
                ELSE R(st1, Some(call))
    IN  with_arguments(compile_arguments(IF node.id = "get"
                                         THEN [st EXCEPT !.external_queries = Append(@, RootPath)]
                                         ELSE st,
                                         node.xs, 1, <<>>))

\* function_call::Builder::new, closure part: the closure variables are bound in
\* the local environment, the i-th with the kind the function gives its i-th
\* closure parameter (a key, then a value)
RECURSIVE builder_new_closure(_, _, _)
builder_new_closure(local, params, i) ==
    IF i > Len(params) THEN local
    ELSE builder_new_closure(
             insert_variable(local, params[i].id, IF i = 1 THEN {"bytes"} ELSE KindAny),
             params, i + 1)

\* function_call::Builder::compile, closure part: every closure variable gets the
\* details it had in local_snapshot, or is removed if it had none
builder_compile_closure(local, local_snapshot, params) ==
    [v \in Vars |->
        IF \E i \in 1..Len(params) : params[i].id = v THEN local_snapshot[v]
        ELSE local[v]]

compile_function_call(st, node) ==
    LET \* Builder::compile: args, the local_snapshot, and the closure block (none: <<>>)
        compiled(args, local_snapshot, b) ==
            IF b.expr = None THEN b
            ELSE
            LET st2 == [b.st EXCEPT
                           !.local = builder_compile_closure(@, local_snapshot, node.ps)]
            IN  IF node.flag /\ ~FnTypeDef(node.id).fallible
                   /\ ~any_fallible(args.expr[1], st2.local, st2.external)
                THEN R(push_diagnostic(st2, ExprError("abort_infallible", Label(node))), None)
                ELSE R(st2, Some([node EXCEPT !.xs = args.expr[1], !.ys = b.expr[1]]))
        \* lines 708-717: a closure block that fails to compile ends the call
        closure_block(r) == IF r.expr = None THEN r ELSE R(r.st, Some(<<r.expr[1]>>))
        with_arguments(args) ==
            IF args.expr = None THEN args
            ELSE
            LET st1 == IF node.flag THEN [args.st EXCEPT !.fallible = TRUE] ELSE args.st
            IN  \* function_call::Builder::new
                IF node.id \notin FnIdents
                THEN R(push_diagnostic(st1, ExprError("undefined_function", Label(node))), None)
                ELSE compiled(args, st1.local,
                         IF node.ys = <<>> THEN R(st1, Some(<<>>))
                         ELSE closure_block(compile_block(
                                  [st1 EXCEPT !.local = builder_new_closure(@, node.ps, 1)],
                                  node.ys[1])))
    IN  with_arguments(compile_arguments(IF node.id = "get"
                                         THEN [st EXCEPT !.external_queries = Append(@, RootPath)]
                                         ELSE st,
                                         node.xs, 1, <<>>))

compile_abort(st, node) ==
    LET with_message(m) ==
            IF m.expr = None THEN m
            ELSE \* Abort::new
                 IF type_def(m.expr[1], m.st.local, m.st.external).kind /= {"bytes"}
                 THEN R(push_diagnostic(m.st, ExprError("non_string_abort", Label(node))), None)
                 ELSE R(m.st, Some([node EXCEPT !.xs = m.expr]))
    IN  IF node.xs = <<>> THEN R([st EXCEPT !.abortable = TRUE], Some(node))
        ELSE with_message(compile_expr([st EXCEPT !.abortable = TRUE], node.xs[1]))

\* mutant of compile_expr: a later fallible expression replaces the pending error
compile_expr_Overwrite(st, node) ==
    LET compiled(r) ==
            IF r.expr = None THEN r
            ELSE IF is_fallible(type_def(r.expr[1], r.st.local, r.st.external))
                 THEN R([r.st EXCEPT !.fallible_expression_error =
                                         Some(ExprError("fallible", Label(node)))],
                        r.expr)
                 ELSE r
    IN  compiled(CASE node.kind = "literal"  -> compile_literal(st, node)
                   [] node.kind = "block"    -> compile_block(st, node)
                   [] node.kind = "if"       -> compile_if_statement(st, node)
                   [] node.kind = "op"       -> compile_op(st, node)
                   [] node.kind \in {"assign", "assign_infallible"} ->
                                                compile_assignment(st, node)
                   [] node.kind = "query"    -> compile_query(st, node)
                   [] node.kind = "call"     -> compile_function_call(st, node)
                   [] node.kind = "variable" -> compile_variable(st, node)
                   [] node.kind = "abort"    -> compile_abort(st, node))

compile_expr(st, node) ==
    LET compiled(r) ==
            IF r.expr = None THEN r
            ELSE IF is_fallible(type_def(r.expr[1], r.st.local, r.st.external))
                    /\ r.st.fallible_expression_error = None
                 THEN R([r.st EXCEPT !.fallible_expression_error =
                                         Some(ExprError("fallible", Label(node)))],
                        r.expr)
                 ELSE r
    IN  compiled(CASE node.kind = "literal"  -> compile_literal(st, node)
                   [] node.kind = "block"    -> compile_block(st, node)
                   [] node.kind = "if"       -> compile_if_statement(st, node)
                   [] node.kind = "op"       -> compile_op(st, node)
                   [] node.kind \in {"assign", "assign_infallible"} ->
                                                compile_assignment(st, node)
                   [] node.kind = "query"    -> compile_query(st, node)
                   [] node.kind = "call"     -> compile_function_call(st, node)
                   [] node.kind = "variable" -> compile_variable(st, node)
                   [] node.kind = "abort"    -> compile_abort(st, node))


(***************************************************************************)
(* compile_root_exprs (compiler.rs:220-264), one loop iteration at a time, *)
(* and Compiler::compile (compiler.rs:63-89).                              *)
(***************************************************************************)
Loop(st, exprs, term, some) ==
    [c |-> st, node_exprs |-> exprs, terminated_state |-> term, some |-> some]

\* mutant of compile_root_expr: the expression is emitted even after a terminator
compile_root_expr_NoTruncation(st, exprs, term, node) ==
    LET with_expr(r) ==
            IF r.expr = None THEN Loop(r.st, exprs, term, FALSE)
            ELSE
            LET st1 == IF r.st.fallible_expression_error /= None
                       THEN [push_diagnostic(r.st, r.st.fallible_expression_error[1])
                                EXCEPT !.fallible_expression_error = None]
                       ELSE r.st
            IN  IF is_never(type_def(r.expr[1], st1.local, st1.external)) /\ term = None
                THEN Loop(st1, Append(exprs, r.expr[1]),
                          Some([local |-> st1.local, external |-> st1.external]), TRUE)
                ELSE Loop(st1, Append(exprs, r.expr[1]), term, TRUE)
    IN  with_expr(compile_expr([st EXCEPT !.fallible_expression_error = None], node))

\* loop body for RootExpr::Expr(node)
compile_root_expr(st, exprs, term, node) ==
    LET with_expr(r) ==
            IF r.expr = None THEN Loop(r.st, exprs, term, FALSE)
            ELSE
            LET st1 == IF r.st.fallible_expression_error /= None
                       THEN [push_diagnostic(r.st, r.st.fallible_expression_error[1])
                                EXCEPT !.fallible_expression_error = None]
                       ELSE r.st
            IN  IF term /= None THEN Loop(st1, exprs, term, TRUE)
                ELSE IF is_never(type_def(r.expr[1], st1.local, st1.external))
                     THEN Loop(st1, Append(exprs, r.expr[1]),
                               Some([local |-> st1.local, external |-> st1.external]), TRUE)
                     ELSE Loop(st1, Append(exprs, r.expr[1]), term, TRUE)
    IN  with_expr(compile_expr([st EXCEPT !.fallible_expression_error = None], node))

\* loop body for RootExpr::Error(err): handle_parser_error
handle_parser_error(st, err) == push_diagnostic(st, err)

\* mutant of compile_root_exprs_end: the stored state is not restored
compile_root_exprs_end_NoRestore(st, exprs, term) ==
    Loop(st, IF exprs = <<>> THEN <<Noop>> ELSE exprs, term, TRUE)

\* after the loop: the state stored at the terminating expression is restored
compile_root_exprs_end(st, exprs, term) ==
    LET st1 == IF term /= None
               THEN [st EXCEPT !.local = term[1].local, !.external = term[1].external]
               ELSE st
    IN  Loop(st1, IF exprs = <<>> THEN <<Noop>> ELSE exprs, term, TRUE)

is_error(d) == d.severity \in {"Bug", "Error"}
NoInfo == [fallible |-> FALSE, abortable |-> FALSE,
           target_queries |-> <<>>, target_assignments |-> <<>>]
Pending == [tag |-> "pending", expressions |-> <<>>, local |-> LocalEnvDefault,
            info |-> NoInfo, list |-> <<>>]

\* mutant of compile: only Severity::Error counts as an error
compile_BugIsWarning(st, expressions) ==
    LET errs == SelectSeq(st.diagnostics, LAMBDA d : d.severity = "Error")
        warnings == SelectSeq(st.diagnostics, LAMBDA d : d.severity /= "Error")
    IN  IF errs /= <<>>
        THEN [Pending EXCEPT !.tag = "Err", !.list = errs]
        ELSE [tag |-> "Ok",
              expressions |-> expressions,
              local |-> st.local,
              info |-> [fallible |-> st.fallible,
                        abortable |-> st.abortable,
                        target_queries |-> st.external_queries,
                        target_assignments |-> st.external_assignments],
              list |-> warnings]

\* Compiler::compile after compile_root_exprs: partition and the Result
compile(st, expressions) ==
    LET errs == SelectSeq(st.diagnostics, is_error)
        warnings == SelectSeq(st.diagnostics, LAMBDA d : ~is_error(d))
    IN  IF errs /= <<>>
        THEN [Pending EXCEPT !.tag = "Err", !.list = errs]
        ELSE [tag |-> "Ok",
              expressions |-> expressions,
              local |-> st.local,
              info |-> [fallible |-> st.fallible,
                        abortable |-> st.abortable,
                        target_queries |-> st.external_queries,
                        target_assignments |-> st.external_assignments],
              list |-> warnings]

(***************************************************************************)
(* Inputs of the expression compiler.                                      *)
(***************************************************************************)
FooCall == Call("foo", FALSE, <<>>)
BodyX == <<AssignVar("x", Lit("bytes"))>>
BodyX2 == <<AssignVar("x", Lit("boolean"))>>
BodyA == <<AssignExt("a", Lit("bytes"))>>
BodyB == <<AssignExt("b", Lit("integer"))>>
BodyY == <<AssignVar("y", Lit("integer")), AssignVar("x", Lit("boolean"))>>
BodyNull == <<Lit("null")>>
BodyZ == <<AssignVar("y", Lit("integer")), AssignVar("x", Lit("boolean")), Var("z")>>
BodyAbort == <<AbortNode>>
BodyNest == <<BlockNode(<<AssignVar("y", Lit("integer"))>>), AssignVar("x", Lit("bytes"))>>
BodyDead == <<AbortNode, AssignVar("x", Lit("bytes"))>>

PlainExprs ==
    {AssignVar("x", Lit("integer")), AssignVar("x", Lit("bytes")),
     AssignExt("a", Lit("integer")), AssignVar("x", Var("z")),
     Var("x"), Var("z"), QueryExt("a"), AbortNode,
     FooCall, Call("foo", TRUE, <<>>), Call("bar", TRUE, <<>>),
     OpNode(FooCall, "Err", Lit("integer")),
     OpNode(FooCall, "Eq", Lit("integer")),
     AssignInf("x", "err", FooCall),
     AssignExt("a", Var("z")), AssignInf("x", "err", Var("z")),
     Var("err"), QueryVar("x"),
     AssignExt("b", QueryExt("a")), Call("get", FALSE, <<>>)}

IfExprs ==
    {IfNode(Lit("boolean"), b) : b \in {BodyX, BodyA, BodyY, BodyAbort}}
    \cup {IfElse(Lit("boolean"), b1, b2) :
            b1 \in {BodyX, BodyA, BodyY, BodyAbort},
            b2 \in {BodyX2, BodyB, BodyNull, BodyAbort, BodyZ}}
    \cup {IfNode(Lit("integer"), BodyX), IfNode(FooCall, BodyX)}

BlockExprs == {BlockNode(b) : b \in {BodyY, BodyZ, BodyNest, BodyDead}}

\* calls with a closure |x, y|: a body that compiles, one that assigns to a closure
\* variable, and one that fails on the undefined z
ClosureExprs ==
    {CallClosure("each", <<>>, <<"x", "y">>, b) : b \in {BodyNull, BodyX2, <<Var("z")>>}}

RootExprs == PlainExprs \cup IfExprs \cup BlockExprs \cup ClosureExprs

\* the severity of a parser error is whatever its DiagnosticMessage reports
ParserErrors == {Diag(sev, "parser", <<"root", "">>) : sev \in Severities}

\* ExternalEnv targets the caller may pass, and (new_with_local_state) local states
ExternalInputs == {ExternalDefault, [ExternalDefault EXCEPT !["a"] = {"integer"}]}
LocalInputs == {LocalEnvDefault, insert_variable(LocalEnvDefault, "x", {"integer"})}

(***************************************************************************)
(* Topology compiler: data model.  Strings are sequences of characters so  *)
(* that keys can be concatenated and glob patterns matched.  An IndexMap   *)
(* is a sequence of entries with distinct keys, in insertion order.        *)
(***************************************************************************)
Dot == <<".">>
sFoo1 == <<"f", "o", "o", "1">>
sFoo2 == <<"f", "o", "o", "2">>
sBar == <<"b", "a", "r">>
sFoos == <<"f", "o", "o", "s">>
sR == <<"r">>
sTX == <<"t", ".", "x">>
sRA == <<"r", ".", "a">>
sBaz == <<"b", "a", "z">>
sA == <<"a">>
sB == <<"b">>
sP == <<"p">>
gFooStar == <<"f", "o", "o", "*">>
gFoosStar == <<"f", "o", "o", "s", "*">>
gBStar == <<"b", "*">>
gStar == <<"*">>
gNone == <<"n", "*">>
gQAr == <<"?", "a", "r">>
gBracket == <<"b", "[">>

\* ExpandType
Parallel == "Parallel"
Serial == "Serial"

(* The transform configs of the model, by name of the config type:         *)
(*   expand()        "none" (Ok(None)), "some" (Ok(Some(children, type)))  *)
(*                   or "err"                                               *)
(*   named_outputs() the ports of the transform                            *)
Child(name, inner) == [name |-> name, inner |-> inner]
TransformConfig(inner) ==
    CASE inner = "plain"  -> [expand |-> "none", children |-> <<>>, type |-> Parallel, ports |-> <<>>]
      [] inner = "ported" -> [expand |-> "none", children |-> <<>>, type |-> Parallel, ports |-> <<sP>>]
      [] inner = "par"    -> [expand |-> "some",
                              children |-> <<Child(sA, "plain"), Child(sB, "plain")>>,
                              type |-> Parallel, ports |-> <<>>]
      [] inner = "ser"    -> [expand |-> "some",
                              children |-> <<Child(sA, "plain"), Child(sB, "ported")>>,
                              type |-> Serial, ports |-> <<>>]
      [] inner = "nest"   -> [expand |-> "some",
                              children |-> <<Child(sA, "par")>>,
                              type |-> Serial, ports |-> <<>>]
      [] inner = "parbad" -> [expand |-> "some",
                              children |-> <<Child(sA, "bad"), Child(sB, "plain")>>,
                              type |-> Parallel, ports |-> <<>>]
      [] OTHER            -> [expand |-> "err", children |-> <<>>, type |-> Parallel, ports |-> <<>>]

TransformOuter(key, inputs, inner) == [key |-> key, inputs |-> inputs, inner |-> inner]
SinkOuter(key, inputs) == [key |-> key, inputs |-> inputs, inner |-> "sink"]

\* IndexMap::insert: a new key goes last, an existing key keeps its place
map_insert(m, entry) ==
    IF \E i \in 1..Len(m) : m[i].key = entry.key
    THEN [i \in 1..Len(m) |-> IF m[i].key = entry.key THEN entry ELSE m[i]]
    ELSE Append(m, entry)
map_keys(m) == [i \in 1..Len(m) |-> m[i].key]

ConfigError(phase, key) == [phase |-> phase, key |-> key]

RECURSIVE Flatten(_)
Flatten(ss) == IF ss = <<>> THEN <<>> ELSE Head(ss) \o Flatten(Tail(ss))

(***************************************************************************)
(* validation::check_names, check_shape, check_resources, Graph::new and   *)
(* Graph::typecheck, as far as compile depends on them.                    *)
(***************************************************************************)
contains_dot(key) == \E i \in 1..Len(key) : key[i] = "."

\* one error per key that contains a dot; transforms, then sources, then sinks
check_names(b) ==
    LET keys == map_keys(b.transforms) \o b.sources \o map_keys(b.sinks)
        bad == SelectSeq(keys, contains_dot)
    IN  [i \in 1..Len(bad) |-> ConfigError("name", bad[i])]

\* no sources, no sinks, and components without inputs
check_shape(b) ==
    LET comps == b.sinks \o b.transforms
        empty == SelectSeq(comps, LAMBDA t : t.inputs = <<>>)
    IN  (IF b.sources = <<>> THEN <<ConfigError("shape", <<>>)>> ELSE <<>>)
        \o (IF b.sinks = <<>> THEN <<ConfigError("shape", <<>>)>> ELSE <<>>)
        \o [i \in 1..Len(empty) |-> ConfigError("shape", empty[i].key)]

\* whether two components claim one resource is a property of the configs
check_resources(b) ==
    IF b.conflict THEN <<ConfigError("resource", <<>>)>> ELSE <<>>

\* the strings an input may name: sources, transforms, and component.port
RECURSIVE index_set(_, _)
index_set(seq, acc) ==
    IF seq = <<>> THEN acc
    ELSE index_set(Tail(seq),
                   IF \E i \in 1..Len(acc) : acc[i] = Head(seq) THEN acc
                   ELSE Append(acc, Head(seq)))

port_strings(t) ==
    LET ports == TransformConfig(t.inner).ports
    IN  [i \in 1..Len(ports) |-> t.key \o Dot \o ports[i]]

\* sequence reversal
Reverse(seq) == [i \in 1..Len(seq) |-> seq[Len(seq) + 1 - i]]

\* mutant of glob_candidates: the candidates are collected in a HashSet, whose
\* iteration order depends on the RandomState of the process
glob_candidates_Hashed(b) ==
    LET set == index_set(b.sources \o map_keys(b.transforms)
                         \o Flatten([i \in 1..Len(b.transforms) |->
                                        port_strings(b.transforms[i])]),
                         <<>>)
    IN  IF hash_seed THEN Reverse(set) ELSE set

glob_candidates(b) ==
    index_set(b.sources \o map_keys(b.transforms)
              \o Flatten([i \in 1..Len(b.transforms) |-> port_strings(b.transforms[i])]),
              <<>>)

\* Graph::new: every input must name an output of the graph
graph_new(b) ==
    LET available == glob_candidates(b)
        comps == b.transforms \o b.sinks
        missing(t) == SelectSeq(t.inputs, LAMBDA s : ~InSeq(s, available))
    IN  Flatten([i \in 1..Len(comps) |->
                    [j \in 1..Len(missing(comps[i])) |-> ConfigError("graph", comps[i].key)]])

\* whether an edge joins incompatible data types is a property of the configs
graph_typecheck(b) ==
    IF b.mismatch THEN <<ConfigError("type", <<>>)>> ELSE <<>>

(***************************************************************************)
(* expand_macros (config/compiler.rs:105-151).                             *)
(***************************************************************************)
\* mutant of expand_children: serial children are wired like parallel ones
RECURSIVE expand_children_AllParallel(_, _, _, _, _, _, _)
expand_children_AllParallel(transforms, k, t, x, i, inputs, children) ==
    IF i > Len(x.children) THEN [transforms |-> transforms, children |-> children]
    ELSE LET full_name == k \o Dot \o x.children[i].name
         IN  expand_children_AllParallel(
                 map_insert(transforms, TransformOuter(full_name, inputs, x.children[i].inner)),
                 k, t, x, i + 1,
                 t.inputs,
                 Append(children, full_name))

\* mutant of expand_children: a child stands under its own name, without the parent's key
RECURSIVE expand_children_NoPrefix(_, _, _, _, _, _, _)
expand_children_NoPrefix(transforms, k, t, x, i, inputs, children) ==
    IF i > Len(x.children) THEN [transforms |-> transforms, children |-> children]
    ELSE LET full_name == x.children[i].name
         IN  expand_children_NoPrefix(
                 map_insert(transforms, TransformOuter(full_name, inputs, x.children[i].inner)),
                 k, t, x, i + 1,
                 IF x.type = Parallel THEN t.inputs ELSE <<full_name>>,
                 Append(children, full_name))

RECURSIVE expand_children(_, _, _, _, _, _, _)
\* the for loop over `expanded` (lines 123-138)
expand_children(transforms, k, t, x, i, inputs, children) ==
    IF i > Len(x.children) THEN [transforms |-> transforms, children |-> children]
    ELSE LET full_name == k \o Dot \o x.children[i].name
         IN  expand_children(
                 map_insert(transforms, TransformOuter(full_name, inputs, x.children[i].inner)),
                 k, t, x, i + 1,
                 IF x.type = Parallel THEN t.inputs ELSE <<full_name>>,
                 Append(children, full_name))

\* mutant of expand_macros_loop: the first expand() error ends the loop
RECURSIVE expand_macros_loop_FailFast(_, _, _, _)
expand_macros_loop_FailFast(transforms, expanded_transforms, exps, errs) ==
    IF transforms = <<>>
    THEN [transforms |-> expanded_transforms, expansions |-> exps, errors |-> errs]
    ELSE LET t == transforms[Len(transforms)]
             rest == SubSeq(transforms, 1, Len(transforms) - 1)
             x == TransformConfig(t.inner)
         IN  IF x.expand = "err"
             THEN [transforms |-> expanded_transforms, expansions |-> exps,
                   errors |-> Append(errs, ConfigError("expand", t.key))]
             ELSE IF x.expand = "some"
             THEN LET ch == expand_children(rest, t.key, t, x, 1, t.inputs, <<>>)
                  IN  expand_macros_loop_FailFast(ch.transforms, expanded_transforms,
                                         map_insert(exps, [key |-> t.key, children |-> ch.children]),
                                         errs)
             ELSE expand_macros_loop_FailFast(rest, map_insert(expanded_transforms, t), exps, errs)

RECURSIVE expand_macros_loop(_, _, _, _)
\* the while loop (lines 112-143); pop takes the last entry
expand_macros_loop(transforms, expanded_transforms, exps, errs) ==
    IF transforms = <<>>
    THEN [transforms |-> expanded_transforms, expansions |-> exps, errors |-> errs]
    ELSE LET t == transforms[Len(transforms)]
             rest == SubSeq(transforms, 1, Len(transforms) - 1)
             x == TransformConfig(t.inner)
         IN  IF x.expand = "err"
             THEN expand_macros_loop(rest, expanded_transforms, exps,
                                     Append(errs, ConfigError("expand", t.key)))
             ELSE IF x.expand = "some"
             THEN LET ch == expand_children(rest, t.key, t, x, 1, t.inputs, <<>>)
                  IN  expand_macros_loop(ch.transforms, expanded_transforms,
                                         map_insert(exps, [key |-> t.key, children |-> ch.children]),
                                         errs)
             ELSE expand_macros_loop(rest, map_insert(expanded_transforms, t), exps, errs)

expand_macros(b) ==
    LET r == expand_macros_loop(b.transforms, <<>>, <<>>, <<>>)
    IN  [builder |-> [b EXCEPT !.transforms = r.transforms],
         ok |-> r.errors = <<>>,
         expansions |-> r.expansions,
         errors |-> r.errors]

(***************************************************************************)
(* expand_globs (config/compiler.rs:154-218).                              *)
(***************************************************************************)
\* glob::Pattern::new: an unclosed "[" is a syntax error
pattern_new_ok(raw) ==
    ~ \E i \in 1..Len(raw) : raw[i] = "[" /\ ~ \E j \in (i + 1)..Len(raw) : raw[j] = "]"

\* glob::Pattern::matches for patterns of literals, "?" and "*"
RECURSIVE pattern_matches(_, _)
pattern_matches(pat, str) ==
    IF pat = <<>> THEN str = <<>>
    ELSE IF Head(pat) = "*"
         THEN pattern_matches(Tail(pat), str)
              \/ (str /= <<>> /\ pattern_matches(pat, Tail(str)))
         ELSE /\ str /= <<>>
              /\ (Head(pat) = "?" \/ Head(pat) = Head(str))
              /\ pattern_matches(Tail(pat), Tail(str))

\* InputMatcher::matches, the matcher being built from raw_input (lines 199-204)
matcher_matches(raw_input, candidate) ==
    IF pattern_new_ok(raw_input) THEN pattern_matches(raw_input, candidate)
    ELSE raw_input = candidate

\* mutant of glob_candidates_loop: the component itself is not excluded
RECURSIVE glob_candidates_loop_Self(_, _, _, _, _, _)
glob_candidates_loop_Self(raw_input, id, candidates, i, inputs, matched) ==
    IF i > Len(candidates) THEN [inputs |-> inputs, matched |-> matched]
    ELSE IF matcher_matches(raw_input, candidates[i])
         THEN glob_candidates_loop_Self(raw_input, id, candidates, i + 1,
                                        Append(inputs, candidates[i]), TRUE)
         ELSE glob_candidates_loop_Self(raw_input, id, candidates, i + 1, inputs, matched)

RECURSIVE glob_candidates_loop(_, _, _, _, _, _)
\* the inner for loop over the candidates (lines 206-211)
glob_candidates_loop(raw_input, id, candidates, i, inputs, matched) ==
    IF i > Len(candidates) THEN [inputs |-> inputs, matched |-> matched]
    ELSE IF matcher_matches(raw_input, candidates[i]) /\ candidates[i] /= id
         THEN glob_candidates_loop(raw_input, id, candidates, i + 1,
                                   Append(inputs, candidates[i]), TRUE)
         ELSE glob_candidates_loop(raw_input, id, candidates, i + 1, inputs, matched)

\* mutant of expand_globs_loop: an input that matched nothing is dropped
RECURSIVE expand_globs_loop_Drop(_, _, _, _, _)
expand_globs_loop_Drop(raw_inputs, id, candidates, i, inputs) ==
    IF i > Len(raw_inputs) THEN inputs
    ELSE LET r == glob_candidates_loop(raw_inputs[i], id, candidates, 1, inputs, FALSE)
         IN  expand_globs_loop_Drop(raw_inputs, id, candidates, i + 1, r.inputs)

RECURSIVE expand_globs_loop(_, _, _, _, _)
\* the outer for loop over raw_inputs (lines 198-217)
expand_globs_loop(raw_inputs, id, candidates, i, inputs) ==
    IF i > Len(raw_inputs) THEN inputs
    ELSE LET r == glob_candidates_loop(raw_inputs[i], id, candidates, 1, inputs, FALSE)
         IN  expand_globs_loop(raw_inputs, id, candidates, i + 1,
                               IF ~r.matched THEN Append(r.inputs, raw_inputs[i]) ELSE r.inputs)

expand_globs_inner(inputs, id, candidates) ==
    expand_globs_loop(inputs, id, candidates, 1, <<>>)

expand_globs(b) ==
    LET candidates == glob_candidates(b)
        expand(t) == [t EXCEPT !.inputs = expand_globs_inner(t.inputs, t.key, candidates)]
    IN  [b EXCEPT !.transforms = [i \in 1..Len(b.transforms) |-> expand(b.transforms[i])],
                  !.sinks = [i \in 1..Len(b.sinks) |-> expand(b.sinks[i])]]

(***************************************************************************)
(* Inputs of the topology compiler.                                        *)
(***************************************************************************)
\* Longest raw input list of the sink.
MaxInputs == 2
\* Most transforms in a builder.
MaxTransforms == 1

SeqsUpTo(S, n) == UNION {[1..k -> S] : k \in 0..n}
DistinctKeys(m) == \A i, j \in 1..Len(m) : m[i].key = m[j].key => i = j

SinkPatterns == {gFooStar, gFoosStar, gBStar, gStar, gNone, gBracket, sBar}
TransformInputs == {TransformOuter(sFoos, <<gFooStar>>, "plain"),
                    TransformOuter(sFoos, <<gFoosStar>>, "plain"),
                    TransformOuter(sFoos, <<gQAr, gStar>>, "ported"),
                    TransformOuter(sR, <<gFooStar>>, "par"),
                    TransformOuter(sR, <<sBar>>, "ser"),
                    TransformOuter(sR, <<sBar>>, "nest"),
                    TransformOuter(sR, <<sBar>>, "bad"),
                    TransformOuter(sTX, <<gStar>>, "plain"),
                    TransformOuter(sTX, <<gBStar>>, "bad")}
SourceInputs == {<<sFoo1, sFoo2, sBar>>, <<sFoo1>>}

Builders ==
    {[sources |-> srcs, transforms |-> ts, sinks |-> <<SinkOuter(sBaz, ins)>>,
      conflict |-> cf, mismatch |-> mm] :
        srcs \in SourceInputs,
        ts \in {m \in SeqsUpTo(TransformInputs, MaxTransforms) : DistinctKeys(m)},
        ins \in SeqsUpTo(SinkPatterns, MaxInputs),
        cf \in BOOLEAN, mm \in BOOLEAN}

\* Most transforms in a builder of MacroBuilders.
MaxExpand == 2

\* builders for expand_macros: several transforms, some that fail to expand, and
\* the key r.a both as a user-supplied key and as the key of a child of r
MacroTransforms == {TransformOuter(sR, <<sFoo1>>, "par"),
                    TransformOuter(sR, <<sFoo1>>, "nest"),
                    TransformOuter(sR, <<sFoo1>>, "parbad"),
                    TransformOuter(sR, <<sFoo1>>, "bad"),
                    TransformOuter(sRA, <<sFoo1>>, "plain"),
                    TransformOuter(sRA, <<sFoo1>>, "bad"),
                    TransformOuter(sFoos, <<sFoo1>>, "plain"),
                    TransformOuter(sFoos, <<sFoo1>>, "bad"),
                    TransformOuter(sFoos, <<sFoo1>>, "ser")}

MacroBuilders ==
    {[sources |-> <<sFoo1>>, transforms |-> ts, sinks |-> <<SinkOuter(sBaz, ins)>>,
      conflict |-> cf, mismatch |-> mm] :
        ts \in {m \in SeqsUpTo(MacroTransforms, MaxExpand) : DistinctKeys(m)},
        ins \in {<<gStar>>, <<sBar>>, <<>>},
        cf \in BOOLEAN, mm \in BOOLEAN}

BuilderDefault == [sources |-> <<>>, transforms |-> <<>>, sinks |-> <<>>,
                   conflict |-> FALSE, mismatch |-> FALSE]
NoConfig == [sources |-> <<>>, transforms |-> <<>>, sinks |-> <<>>, expansions |-> <<>>]
CfgPending == [tag |-> "pending", errors |-> <<>>, config |-> NoConfig]
CfgErr(errs) == [tag |-> "Err", errors |-> errs, config |-> NoConfig]
CfgOk(b, exps) ==
    [tag |-> "Ok", errors |-> <<>>,
     config |-> [sources |-> b.sources, transforms |-> b.transforms,
                 sinks |-> b.sinks, expansions |-> exps]]

(***************************************************************************)
(* Schema requirement validator (lib/vector-core/src/schema/requirement.rs)*)
(* Requirement.meaning is a BTreeMap: a sequence of entries in key order.  *)
(***************************************************************************)
Identifiers == {"bar", "foo"}
\* the order of &str keys in the BTreeMap
IdRank(id) == IF id = "bar" THEN 1 ELSE 2

SemanticMeaning(kind, optional) == [kind |-> kind, optional |-> optional]
MeaningEntry(identifier, meaning) == [identifier |-> identifier, meaning |-> meaning]
RequirementEmpty == <<>>

\* BTreeMap::insert: an existing key gets the new value, a new key its sorted place
insert_meaning(req, identifier, kind, optional) ==
    LET entry == MeaningEntry(identifier, SemanticMeaning(kind, optional))
        before == SelectSeq(req, LAMBDA e : IdRank(e.identifier) < IdRank(identifier))
        after == SelectSeq(req, LAMBDA e : IdRank(e.identifier) > IdRank(identifier))
    IN  before \o <<entry>> \o after

required_meaning(req, meaning, kind) == insert_meaning(req, meaning, kind, FALSE)
optional_meaning(req, meaning, kind) == insert_meaning(req, meaning, kind, TRUE)

(* The Definition, as far as validate reads it:                            *)
(*   meaning          identifier -> Option<path>                           *)
(*   invalid_meaning  identifier -> Option<set of paths>                   *)
(*   collection       path -> Option<Kind>, the kind known at the path     *)
DefPaths == {"foo", "bar"}
DefinitionEmpty ==
    [meaning |-> [id \in Identifiers |-> None],
     invalid_meaning |-> [id \in Identifiers |-> None],
     collection |-> [p \in DefPaths |-> None]]
invalid_meaning(def, identifier) == def.invalid_meaning[identifier]
\* Definition::meanings: the (identifier, path) pairs, in key order
meanings(def) ==
    LET ids == SelectSeq(<<"bar", "foo">>, LAMBDA id : def.meaning[id] /= None)
    IN  [i \in 1..Len(ids) |-> <<ids[i], def.meaning[ids[i]][1]>>]
\* collection().find_known_at_path(..).ok().flatten()
find_known_at_path(def, path) == def.collection[path]
\* Kind::is_superset
is_superset(self, other) == other \subseteq self

\* ValidationError
MeaningMissing(identifier) ==
    [tag |-> "MeaningMissing", identifier |-> identifier,
     want |-> KindNever, got |-> KindNever, paths |-> {}]
MeaningKind(identifier, want, got) ==
    [tag |-> "MeaningKind", identifier |-> identifier,
     want |-> want, got |-> got, paths |-> {}]
MeaningDuplicate(identifier, paths) ==
    [tag |-> "MeaningDuplicate", identifier |-> identifier,
     want |-> KindNever, got |-> KindNever, paths |-> paths]

\* the find_map over definition.meanings() (lines 93-99): the first path bound
\* to the identifier
find_meaning_path(def, identifier) ==
    LET found == SelectSeq(meanings(def), LAMBDA m : m[1] = identifier)
    IN  IF found = <<>> THEN None ELSE Some(found[1][2])

\* mutant of definition_kind: a path without a known kind counts as "never"
definition_kind_UnknownIsNever(def, path) ==
    IF find_known_at_path(def, path) = None THEN KindNever
    ELSE find_known_at_path(def, path)[1]

\* lines 106-110: the kind at the path, "any" when nothing is known
definition_kind(def, path) ==
    IF find_known_at_path(def, path) = None THEN KindAny
    ELSE find_known_at_path(def, path)[1]

\* mutant of validate_meaning: nothing is checked once an error was recorded
validate_meaning_FailFast(def, identifier, req_meaning, errs) ==
    IF errs /= <<>> THEN errs
    ELSE IF invalid_meaning(def, identifier) /= None
    THEN Append(errs, MeaningDuplicate(identifier, invalid_meaning(def, identifier)[1]))
    ELSE LET maybe_meaning_path == find_meaning_path(def, identifier)
         IN  IF maybe_meaning_path /= None
             THEN IF ~is_superset(req_meaning.kind, definition_kind(def, maybe_meaning_path[1]))
                  THEN Append(errs, MeaningKind(identifier, req_meaning.kind,
                                                definition_kind(def, maybe_meaning_path[1])))
                  ELSE errs
             ELSE IF ~req_meaning.optional
                  THEN Append(errs, MeaningMissing(identifier))
                  ELSE errs

\* mutant of validate_meaning: a duplicate is recorded and the checks go on
validate_meaning_NoContinue(def, identifier, req_meaning, errs) ==
    LET errs1 == IF invalid_meaning(def, identifier) /= None
                 THEN Append(errs, MeaningDuplicate(identifier,
                                                    invalid_meaning(def, identifier)[1]))
                 ELSE errs
        maybe_meaning_path == find_meaning_path(def, identifier)
    IN  IF maybe_meaning_path /= None
        THEN IF ~is_superset(req_meaning.kind, definition_kind(def, maybe_meaning_path[1]))
             THEN Append(errs1, MeaningKind(identifier, req_meaning.kind,
                                            definition_kind(def, maybe_meaning_path[1])))
             ELSE errs1
        ELSE IF ~req_meaning.optional
             THEN Append(errs1, MeaningMissing(identifier))
             ELSE errs1

\* mutant of validate_meaning: a missing meaning is an error even when optional
validate_meaning_IgnoreOptional(def, identifier, req_meaning, errs) ==
    IF invalid_meaning(def, identifier) /= None
    THEN Append(errs, MeaningDuplicate(identifier, invalid_meaning(def, identifier)[1]))
    ELSE LET maybe_meaning_path == find_meaning_path(def, identifier)
         IN  IF maybe_meaning_path /= None
             THEN IF ~is_superset(req_meaning.kind, definition_kind(def, maybe_meaning_path[1]))
                  THEN Append(errs, MeaningKind(identifier, req_meaning.kind,
                                                definition_kind(def, maybe_meaning_path[1])))
                  ELSE errs
             ELSE Append(errs, MeaningMissing(identifier))

\* the body of the loop over self.meaning (lines 85-128): errs after the entry
validate_meaning(def, identifier, req_meaning, errs) ==
    IF invalid_meaning(def, identifier) /= None
    THEN Append(errs, MeaningDuplicate(identifier, invalid_meaning(def, identifier)[1]))
    ELSE LET maybe_meaning_path == find_meaning_path(def, identifier)
         IN  IF maybe_meaning_path /= None
             THEN IF ~is_superset(req_meaning.kind, definition_kind(def, maybe_meaning_path[1]))
                  THEN Append(errs, MeaningKind(identifier, req_meaning.kind,
                                                definition_kind(def, maybe_meaning_path[1])))
                  ELSE errs
             ELSE IF ~req_meaning.optional
                  THEN Append(errs, MeaningMissing(identifier))
                  ELSE errs

\* lines 131-135
RqPending == [tag |-> "pending", errors |-> <<>>]
validate_result(errs) ==
    IF errs = <<>> THEN [tag |-> "Ok", errors |-> <<>>]
    ELSE [tag |-> "Err", errors |-> errs]

(***************************************************************************)
(* Inputs of the validator.                                                *)
(***************************************************************************)
\* Most required_meaning / optional_meaning calls that build a Requirement.
MaxMeanings == 2

RequiredKinds == {KindAny, {"boolean"}, {"integer", "boolean"}}
KnownKinds == {None, Some({"integer"}), Some({"boolean"})}
\* an identifier is unbound, bound to one path, or invalid (claimed by several
\* paths); Definition::merge moves a meaning two paths claim from `meaning`
\* to `invalid_meaning`
Definitions ==
    {d \in [meaning : [Identifiers -> {None} \cup {Some(p) : p \in DefPaths}],
            invalid_meaning : [Identifiers -> {None, Some(DefPaths)}],
            collection : [DefPaths -> KnownKinds]] :
        \A id \in Identifiers : d.meaning[id] = None \/ d.invalid_meaning[id] = None}

\* `last` before any root expression was compiled
NoLast == [node |-> Noop, pre |-> CompilerNew(LocalEnvDefault, ExternalDefault),
           term |-> None, exprs |-> <<>>, some |-> FALSE, seen |-> FALSE]

\* a core that is not run stays as constructed
VrlIdle ==
    /\ c = CompilerNew(LocalEnvDefault, ExternalDefault)
    /\ node_exprs = <<>>
    /\ terminated_state = None
    /\ last = NoLast
    /\ nroots = 0
    /\ vpc = "idle"
    /\ result = Pending
CfgIdle ==
    /\ builder = BuilderDefault
    /\ errors = <<>>
    /\ expansions = <<>>
    /\ cpc = "idle"
    /\ cfg_result = CfgPending
    /\ builder0 = BuilderDefault
    /\ first_result = None
    /\ hash_seed = FALSE
ReqIdle ==
    /\ requirement = RequirementEmpty
    /\ definition = DefinitionEmpty
    /\ rq_calls = 0
    /\ rq_next = 1
    /\ rq_errors = <<>>
    /\ rpc = "idle"
    /\ rq_result = RqPending
JdIdle ==
    /\ batch_size = 1
    /\ source_pc = "idle"
    /\ stream_pos = 1
    /\ batch = [events |-> 0, cursor |-> None, exiting |-> None]
    /\ for_left = 0
    /\ finalizer = <<>>
    /\ acked = 0
    /\ ack_task = "running"
    /\ tripwire = FALSE
    /\ shutdown = FALSE
    /\ checkpointer = [file |-> <<>>, cursor |-> None]
    /\ ck_writes = <<>>
    /\ io_failed = FALSE
ConIdle ==
    /\ con_value = None
    /\ con_wire = None
    /\ con_back = None
    /\ kpc = "idle"

Init ==
    /\ \E l \in LocalInputs, e \in ExternalInputs : c = CompilerNew(l, e)
    /\ node_exprs = <<>>
    /\ terminated_state = None
    /\ last = NoLast
    /\ nroots = 0
    /\ vpc = "root"
    /\ result = Pending
    /\ CfgIdle
    /\ ReqIdle
    /\ JdIdle
    /\ ConIdle

RootExpr(node) ==
    /\ vpc = "root"
    /\ nroots < MaxRoots
    /\ \E n \in {compile_root_expr(c, node_exprs, terminated_state, node)} :
           /\ c' = n.c
           /\ node_exprs' = n.node_exprs
           /\ terminated_state' = n.terminated_state
           /\ last' = [node |-> node, pre |-> c, term |-> terminated_state,
                       exprs |-> node_exprs, some |-> n.some, seen |-> TRUE]
    /\ nroots' = nroots + 1
    /\ UNCHANGED <<vpc, result>>
    /\ UNCHANGED outside_vrl

RootError(err) ==
    /\ vpc = "root"
    /\ nroots < MaxRoots
    /\ c' = handle_parser_error(c, err)
    /\ last' = [NoLast EXCEPT !.pre = c, !.term = terminated_state, !.exprs = node_exprs]
    /\ nroots' = nroots + 1
    /\ UNCHANGED <<node_exprs, terminated_state, vpc, result>>
    /\ UNCHANGED outside_vrl

\* the nodes are exhausted: compile_root_exprs returns and compile builds its Result
Finish ==
    /\ vpc = "root"
    /\ LET n == compile_root_exprs_end(c, node_exprs, terminated_state)
       IN  /\ c' = n.c
           /\ node_exprs' = n.node_exprs
           /\ result' = compile(n.c, n.node_exprs)
    /\ vpc' = "done"
    /\ UNCHANGED <<terminated_state, last, nroots>>
    /\ UNCHANGED outside_vrl

Next ==
    \/ \E node \in RootExprs : RootExpr(node)
    \/ \E err \in ParserErrors : RootError(err)
    \/ Finish

Spec == Init /\ [][Next]_vars


(***************************************************************************)
(* config::compile (config/compiler.rs:7-101), one phase at a time.        *)
(***************************************************************************)
InitCfg ==
    /\ VrlIdle
    /\ builder \in Builders
    /\ errors = <<>>
    /\ expansions = <<>>
    /\ cpc = "names"
    /\ cfg_result = CfgPending
    /\ builder0 = builder
    /\ first_result = None
    /\ hash_seed = FALSE
    /\ ReqIdle
    /\ JdIdle
    /\ ConIdle

\* mutant of CheckNames: the keys are validated as they are after macro expansion
CheckNames_Expanded ==
    /\ cpc = "names"
    /\ errors' = errors \o check_names(expand_macros(builder).builder)
    /\ cpc' = "macros"
    /\ UNCHANGED <<builder, expansions, cfg_result>>
    /\ UNCHANGED <<builder0, first_result, hash_seed>>
    /\ UNCHANGED outside_cfg

\* lines 13-21
CheckNames ==
    /\ cpc = "names"
    /\ errors' = errors \o check_names(builder)
    /\ cpc' = "macros"
    /\ UNCHANGED <<builder, expansions, cfg_result>>
    /\ UNCHANGED <<builder0, first_result, hash_seed>>
    /\ UNCHANGED outside_cfg

\* line 23: expand_macros(&mut builder)?
ExpandMacros ==
    /\ cpc = "macros"
    /\ LET r == expand_macros(builder)
       IN  /\ builder' = r.builder
           /\ IF r.ok
              THEN /\ expansions' = r.expansions
                   /\ cpc' = "globs"
                   /\ cfg_result' = cfg_result
              ELSE /\ expansions' = expansions
                   /\ cpc' = "done"
                   /\ cfg_result' = CfgErr(r.errors)
    /\ UNCHANGED errors
    /\ UNCHANGED <<builder0, first_result, hash_seed>>
    /\ UNCHANGED outside_cfg

\* line 25
ExpandGlobs ==
    /\ cpc = "globs"
    /\ builder' = expand_globs(builder)
    /\ cpc' = "shape"
    /\ UNCHANGED <<errors, expansions, cfg_result>>
    /\ UNCHANGED <<builder0, first_result, hash_seed>>
    /\ UNCHANGED outside_cfg

\* lines 27-29
CheckShape ==
    /\ cpc = "shape"
    /\ errors' = errors \o check_shape(builder)
    /\ cpc' = "resources"
    /\ UNCHANGED <<builder, expansions, cfg_result>>
    /\ UNCHANGED <<builder0, first_result, hash_seed>>
    /\ UNCHANGED outside_cfg

\* lines 31-33
CheckResources ==
    /\ cpc = "resources"
    /\ errors' = errors \o check_resources(builder)
    /\ cpc' = "graph"
    /\ UNCHANGED <<builder, expansions, cfg_result>>
    /\ UNCHANGED <<builder0, first_result, hash_seed>>
    /\ UNCHANGED outside_cfg

\* mutant of GraphNew: graph-construction errors are collected and compile goes on
GraphNew_Continue ==
    /\ cpc = "graph"
    /\ errors' = errors \o graph_new(builder)
    /\ cpc' = "typecheck"
    /\ UNCHANGED <<builder, expansions, cfg_result>>
    /\ UNCHANGED <<builder0, first_result, hash_seed>>
    /\ UNCHANGED outside_cfg

\* lines 50-56
GraphNew ==
    /\ cpc = "graph"
    /\ LET graph_errors == graph_new(builder)
       IN  IF graph_errors = <<>>
           THEN /\ errors' = errors
                /\ cpc' = "typecheck"
                /\ cfg_result' = cfg_result
           ELSE /\ errors' = errors \o graph_errors
                /\ cpc' = "done"
                /\ cfg_result' = CfgErr(errors \o graph_errors)
    /\ UNCHANGED <<builder, expansions>>
    /\ UNCHANGED <<builder0, first_result, hash_seed>>
    /\ UNCHANGED outside_cfg

\* lines 58-60
Typecheck ==
    /\ cpc = "typecheck"
    /\ errors' = errors \o graph_typecheck(builder)
    /\ cpc' = "assemble"
    /\ UNCHANGED <<builder, expansions, cfg_result>>
    /\ UNCHANGED <<builder0, first_result, hash_seed>>
    /\ UNCHANGED outside_cfg

\* lines 64-100
Assemble ==
    /\ cpc = "assemble"
    /\ cfg_result' = IF errors = <<>> THEN CfgOk(builder, expansions) ELSE CfgErr(errors)
    /\ cpc' = "done"
    /\ UNCHANGED <<builder, errors, expansions>>
    /\ UNCHANGED <<builder0, first_result, hash_seed>>
    /\ UNCHANGED outside_cfg

\* compile as one function of the builder (lines 7-101)
config_compile(b) ==
    LET assemble(g, exps, errs) ==
            IF errs = <<>> THEN CfgOk(g, exps) ELSE CfgErr(errs)
        with_graph(g, exps, errs, graph_errors) ==
            IF graph_errors /= <<>> THEN CfgErr(errs \o graph_errors)
            ELSE assemble(g, exps, errs \o graph_typecheck(g))
        with_globs(g, exps, errs) ==
            with_graph(g, exps, errs \o check_shape(g) \o check_resources(g), graph_new(g))
        with_macros(m, errs) ==
            IF ~m.ok THEN CfgErr(m.errors)
            ELSE with_globs(expand_globs(m.builder), m.expansions, errs)
    IN  with_macros(expand_macros(b), check_names(b))

NextCfg ==
    \/ CheckNames
    \/ ExpandMacros
    \/ ExpandGlobs
    \/ CheckShape
    \/ CheckResources
    \/ GraphNew
    \/ Typecheck
    \/ Assemble

SpecCfg == InitCfg /\ [][NextCfg]_vars

\* config::compile on the builders of MacroBuilders
InitMacro ==
    /\ VrlIdle
    /\ builder \in MacroBuilders
    /\ errors = <<>>
    /\ expansions = <<>>
    /\ cpc = "names"
    /\ cfg_result = CfgPending
    /\ builder0 = builder
    /\ first_result = None
    /\ hash_seed = FALSE
    /\ ReqIdle
    /\ JdIdle
    /\ ConIdle

SpecMacro == InitMacro /\ [][NextCfg]_vars

(***************************************************************************)
(* config::compile called twice on the same ConfigBuilder, each call in    *)
(* one step.                                                               *)
(***************************************************************************)
\* lines 7-101, in one step
CompileOnce ==
    /\ cpc = "names"
    /\ cfg_result' = config_compile(builder0)
    /\ cpc' = "done"
    /\ UNCHANGED <<builder, errors, expansions, builder0, first_result, hash_seed>>
    /\ UNCHANGED outside_cfg

\* the same ConfigBuilder is compiled again, by a process with its own RandomState
Restart ==
    /\ cpc = "done"
    /\ first_result = None
    /\ first_result' = Some(cfg_result)
    /\ hash_seed' \in BOOLEAN
    /\ cpc' = "again"
    /\ UNCHANGED <<builder, errors, expansions, cfg_result, builder0>>
    /\ UNCHANGED outside_cfg

\* lines 7-101, in one step
CompileAgain ==
    /\ cpc = "again"
    /\ cfg_result' = config_compile(builder0)
    /\ cpc' = "done2"
    /\ UNCHANGED <<builder, errors, expansions, builder0, first_result, hash_seed>>
    /\ UNCHANGED outside_cfg

NextCfg2 ==
    \/ CompileOnce
    \/ Restart
    \/ CompileAgain

SpecCfg2 == InitCfg /\ [][NextCfg2]_vars


(***************************************************************************)
(* Requirement::validate (requirement.rs:82-136), one loop iteration at a  *)
(* time, on a Requirement built with required_meaning / optional_meaning.  *)
(***************************************************************************)
InitReq ==
    /\ VrlIdle
    /\ CfgIdle
    /\ requirement = RequirementEmpty
    /\ definition \in Definitions
    /\ rq_calls = 0
    /\ rq_next = 1
    /\ rq_errors = <<>>
    /\ rpc = "build"
    /\ rq_result = RqPending
    /\ JdIdle
    /\ ConIdle

\* lines 56-59
RequiredMeaning(meaning, kind) ==
    /\ rpc = "build"
    /\ rq_calls < MaxMeanings
    /\ requirement' = required_meaning(requirement, meaning, kind)
    /\ rq_calls' = rq_calls + 1
    /\ UNCHANGED <<definition, rq_next, rq_errors, rpc, rq_result>>
    /\ UNCHANGED outside_req

\* lines 67-70
OptionalMeaning(meaning, kind) ==
    /\ rpc = "build"
    /\ rq_calls < MaxMeanings
    /\ requirement' = optional_meaning(requirement, meaning, kind)
    /\ rq_calls' = rq_calls + 1
    /\ UNCHANGED <<definition, rq_next, rq_errors, rpc, rq_result>>
    /\ UNCHANGED outside_req

\* line 83: validate is entered, errors is empty
ValidateEnter ==
    /\ rpc = "build"
    /\ rq_errors' = <<>>
    /\ rq_next' = 1
    /\ rpc' = "loop"
    /\ UNCHANGED <<requirement, definition, rq_calls, rq_result>>
    /\ UNCHANGED outside_req

\* lines 85-128: one iteration of the loop over self.meaning
ValidateMeaning ==
    /\ rpc = "loop"
    /\ rq_next <= Len(requirement)
    /\ rq_errors' = validate_meaning(definition, requirement[rq_next].identifier,
                                     requirement[rq_next].meaning, rq_errors)
    /\ rq_next' = rq_next + 1
    /\ UNCHANGED <<requirement, definition, rq_calls, rpc, rq_result>>
    /\ UNCHANGED outside_req

\* lines 131-135
ValidateReturn ==
    /\ rpc = "loop"
    /\ rq_next > Len(requirement)
    /\ rq_result' = validate_result(rq_errors)
    /\ rpc' = "done"
    /\ UNCHANGED <<requirement, definition, rq_calls, rq_next, rq_errors>>
    /\ UNCHANGED outside_req

NextReq ==
    \/ \E meaning \in Identifiers, kind \in RequiredKinds : RequiredMeaning(meaning, kind)
    \/ \E meaning \in Identifiers, kind \in RequiredKinds : OptionalMeaning(meaning, kind)
    \/ ValidateEnter
    \/ ValidateMeaning
    \/ ValidateReturn

SpecReq == InitReq /\ [][NextReq]_vars

(***************************************************************************)
(* The journald source with acknowledgements enabled                       *)
(* (sources/journald.rs): JournaldSource::run and run_stream, Batch, the   *)
(* task Finalizer::new spawns, and the checkpointer.  OrderedFinalizer and *)
(* the sinks behind `out` are outside the file: the finalizer yields the   *)
(* entries added to it in the order they were added, each once its         *)
(* receiver holds a status, and its stream ends when the system shuts down *)
(* or the source drops it; a sink may resolve the receivers in any order.  *)
(***************************************************************************)
\* Number of records the journal holds.
MaxRecords == 3
\* Largest batch_size the source is configured with.
MaxBatchSize == 2
\* Number of batches the source may hand to the finalizer.
MaxBatches == 3

\* the __CURSOR field of the i-th record of the journal: opaque strings of
\* different lengths
CursorOf(i) == IF i % 2 = 1 THEN <<"s", ToString(i), "x">> ELSE <<"s", ToString(i)>>

\* Checkpointer::set (lines 757-760): seek to the start and write "{token}\n";
\* what the file held beyond that stays
Checkpointer_set(file, token) ==
    LET data == token \o <<"\n">>
    IN  data \o SubSeq(file, Len(data) + 1, Len(file))

\* Checkpointer::get (lines 762-777)
Checkpointer_get(file) ==
    IF Len(file) = 0 THEN None
    ELSE IF \E nl \in 1..Len(file) : file[nl] = "\n"
         THEN LET nl == CHOOSE k \in 1..Len(file) :
                            /\ file[k] = "\n"
                            /\ \A j \in 1..(k - 1) : file[j] /= "\n"
              IN  Some(SubSeq(file, 1, nl - 1))
         ELSE None

\* StatefulCheckpointer::new (lines 786-793)
StatefulCheckpointer_new(file) == [file |-> file, cursor |-> Checkpointer_get(file)]

\* StatefulCheckpointer::set (lines 795-804); ok: the file write succeeded
StatefulCheckpointer_set(self, token, ok) ==
    [file   |-> IF ok THEN Checkpointer_set(self.file, token) ELSE self.file,
     cursor |-> Some(token)]

\* the checkpoint files a source may find when it is built
CheckpointFiles == {<<>>, Checkpointer_set(<<>>, CursorOf(1))}

\* start_journalctl (line 519): --after-cursor={cursor}
after_cursor(cursor) ==
    IF cursor = None THEN 1
    ELSE 1 + (CHOOSE i \in 1..MaxRecords : CursorOf(i) = cursor[1])

\* Batch::new (lines 388-401)
Batch_new == [events |-> 0, cursor |-> None, exiting |-> None]

\* what stream.next() may yield at a position: the stream ended, a framing
\* error, or the next record, which decodes or not, and passes the filters or not
StreamItems(pos) ==
    {[tag |-> "None", pos |-> pos], [tag |-> "Err", pos |-> pos]}
    \cup (IF pos <= MaxRecords
          THEN {[tag |-> k, pos |-> pos] : k \in {"event", "filtered", "invalid"}}
          ELSE {})

\* Batch::handle_next (lines 403-443)
handle_next(self, item) ==
    IF item.tag = "None" THEN [batch |-> [self EXCEPT !.exiting = Some(TRUE)], ok |-> FALSE]
    ELSE IF item.tag = "Err" THEN [batch |-> self, ok |-> FALSE]
    ELSE IF item.tag = "invalid" THEN [batch |-> self, ok |-> TRUE]
    ELSE IF item.tag = "filtered"
    THEN [batch |-> [self EXCEPT !.cursor = Some(CursorOf(item.pos))], ok |-> TRUE]
    ELSE [batch |-> [self EXCEPT !.cursor = Some(CursorOf(item.pos)),
                                 !.events = self.events + 1],
          ok |-> TRUE]

next_pos(pos, item) == IF item.tag \in {"None", "Err"} THEN pos ELSE pos + 1

\* the future Finalizer::new returns (line 722): select(shutdown, tripwire)
shutdown_ready == shutdown \/ tripwire

BatchStatus == {"Delivered", "Errored", "Rejected"}

is_delivered_Always(status) == TRUE

\* line 709: status == BatchStatus::Delivered
is_delivered(status) == status = "Delivered"

InitJd ==
    /\ VrlIdle
    /\ CfgIdle
    /\ ReqIdle
    /\ ConIdle
    /\ batch_size \in 1..MaxBatchSize
    /\ source_pc = "run"
    /\ stream_pos = 1
    /\ batch = Batch_new
    /\ for_left = 0
    /\ finalizer = <<>>
    /\ acked = 0
    /\ ack_task = "running"
    /\ tripwire = FALSE
    /\ shutdown = FALSE
    /\ \E file \in CheckpointFiles : checkpointer = StatefulCheckpointer_new(file)
    /\ ck_writes = <<>>
    /\ io_failed = FALSE

\* run, lines 306-316: leave when the shutdown future is ready, else start
\* journalctl after the checkpointer's cursor and enter run_stream
RunStart ==
    /\ source_pc = "run"
    /\ IF shutdown_ready
       THEN /\ source_pc' = "stopped"
            /\ UNCHANGED <<stream_pos, batch>>
       ELSE /\ stream_pos' = after_cursor(checkpointer.cursor)
            /\ batch' = Batch_new
            /\ source_pc' = "first"
    /\ UNCHANGED <<batch_size, for_left, finalizer, acked, ack_task, tripwire,
                   shutdown, checkpointer, ck_writes, io_failed>>
    /\ UNCHANGED outside_jd

\* run_stream, lines 349-357: shutdown while the batch is empty; run_stream
\* returns, which drops the batch and the stream
FirstShutdown ==
    /\ source_pc = "first"
    /\ shutdown_ready
    /\ source_pc' = "stopped"
    /\ batch' = Batch_new
    /\ stream_pos' = 1
    /\ for_left' = 0
    /\ UNCHANGED <<batch_size, finalizer, acked,
                   ack_task, tripwire, shutdown, checkpointer, ck_writes, io_failed>>
    /\ UNCHANGED outside_jd

\* run_stream, lines 349-357: the next item while the batch is empty
FirstNext(item) ==
    /\ source_pc = "first"
    /\ \E r \in {handle_next(batch, item)} :
           IF ~r.ok
           THEN /\ source_pc' = "backoff"
                /\ batch' = Batch_new
                /\ stream_pos' = 1
                /\ for_left' = 0
           ELSE /\ source_pc' = IF r.batch.events = 0 THEN "first"
                                ELSE IF batch_size = 1 THEN "finish"
                                ELSE "more"
                /\ batch' = r.batch
                /\ stream_pos' = next_pos(stream_pos, item)
                /\ for_left' = IF r.batch.events = 0 THEN 0 ELSE batch_size - 1
    /\ UNCHANGED <<batch_size, finalizer, acked, ack_task, tripwire,
                   shutdown, checkpointer, ck_writes, io_failed>>
    /\ UNCHANGED outside_jd

\* run_stream, lines 362-366: the batch timeout fires
MoreTimeout ==
    /\ source_pc = "more"
    /\ source_pc' = "finish"
    /\ UNCHANGED <<batch_size, stream_pos, batch, for_left, finalizer, acked,
                   ack_task, tripwire, shutdown, checkpointer, ck_writes, io_failed>>
    /\ UNCHANGED outside_jd

\* run_stream, lines 362-369: a further item of the batch
MoreNext(item) ==
    /\ source_pc = "more"
    /\ \E r \in {handle_next(batch, item)} :
           /\ batch' = r.batch
           /\ source_pc' = IF ~r.ok \/ for_left = 1 THEN "finish" ELSE "more"
    /\ stream_pos' = next_pos(stream_pos, item)
    /\ for_left' = for_left - 1
    /\ UNCHANGED <<batch_size, finalizer, acked, ack_task, tripwire,
                   shutdown, checkpointer, ck_writes, io_failed>>
    /\ UNCHANGED outside_jd

\* Batch::finish (lines 445-475) and the end of the loop of run_stream
\* (lines 370-372); sent: out.send_batch returned Ok
BatchFinish(sent) ==
    /\ source_pc = "finish"
    /\ sent => Len(finalizer) < MaxBatches
    /\ finalizer' = IF sent /\ batch.cursor /= None
                    THEN Append(finalizer, [cursor |-> batch.cursor[1], status |-> "pending"])
                    ELSE finalizer
    /\ \E exiting \in {IF sent THEN batch.exiting ELSE Some(FALSE)} :
           /\ source_pc' = IF exiting = None THEN "first"
                           ELSE IF exiting[1] THEN "backoff"
                           ELSE "stopped"
           /\ stream_pos' = IF exiting = None THEN stream_pos ELSE 1
    /\ batch' = Batch_new
    /\ for_left' = 0
    /\ UNCHANGED <<batch_size, acked, ack_task, tripwire,
                   shutdown, checkpointer, ck_writes, io_failed>>
    /\ UNCHANGED outside_jd

\* run, lines 329-332: shutdown, or the backoff sleep ends
Backoff(stop) ==
    /\ source_pc = "backoff"
    /\ stop => shutdown_ready
    /\ source_pc' = IF stop THEN "stopped" ELSE "run"
    /\ UNCHANGED <<batch_size, stream_pos, batch, for_left, finalizer, acked,
                   ack_task, tripwire, shutdown, checkpointer, ck_writes, io_failed>>
    /\ UNCHANGED outside_jd

\* a sink finalizes the events of a batch: its receiver gets the status
Acknowledge(i, status) ==
    /\ source_pc /= "idle"
    /\ i \in (acked + 1)..Len(finalizer)
    /\ finalizer[i].status = "pending"
    /\ finalizer' = [finalizer EXCEPT ![i].status = status]
    /\ UNCHANGED <<batch_size, source_pc, stream_pos, batch, for_left, acked,
                   ack_task, tripwire, shutdown, checkpointer, ck_writes, io_failed>>
    /\ UNCHANGED outside_jd

\* Finalizer::new, lines 708-721: one turn of the loop of the spawned task, on
\* the entry ack_stream yields; ok: the write of the checkpoint file succeeded
AckNext(ok) ==
    /\ ack_task = "running"
    /\ acked < Len(finalizer)
    /\ finalizer[acked + 1].status /= "pending"
    /\ acked' = acked + 1
    /\ IF is_delivered(finalizer[acked + 1].status)
       THEN /\ checkpointer' = StatefulCheckpointer_set(checkpointer,
                                                        finalizer[acked + 1].cursor, ok)
            /\ ck_writes' = Append(ck_writes, finalizer[acked + 1].cursor)
            /\ io_failed' = (io_failed \/ ~ok)
            /\ UNCHANGED <<ack_task, tripwire>>
       ELSE /\ ok
            /\ ack_task' = "exited"
            /\ tripwire' = TRUE
            /\ UNCHANGED <<checkpointer, ck_writes, io_failed>>
    /\ UNCHANGED <<batch_size, source_pc, stream_pos, batch, for_left,
                   finalizer, shutdown>>
    /\ UNCHANGED outside_jd

\* Finalizer::new, lines 708 and 721: ack_stream ends (the OrderedFinalizer
\* bailed out on the system shutdown, or the source dropped it)
AckStreamEnd ==
    /\ ack_task = "running"
    /\ shutdown \/ source_pc = "stopped"
    /\ ack_task' = "exited"
    /\ tripwire' = TRUE
    /\ UNCHANGED <<batch_size, source_pc, stream_pos, batch, for_left,
                   finalizer, acked, shutdown, checkpointer, ck_writes, io_failed>>
    /\ UNCHANGED outside_jd

\* the system ShutdownSignal fires
SystemShutdown ==
    /\ source_pc /= "idle"
    /\ ~shutdown
    /\ shutdown' = TRUE
    /\ UNCHANGED <<batch_size, source_pc, stream_pos, batch, for_left,
                   finalizer, acked, ack_task, tripwire, checkpointer, ck_writes,
                   io_failed>>
    /\ UNCHANGED outside_jd

NextJd ==
    \/ RunStart
    \/ FirstShutdown
    \/ \E item \in StreamItems(stream_pos) : FirstNext(item)
    \/ MoreTimeout
    \/ \E item \in StreamItems(stream_pos) : MoreNext(item)
    \/ \E sent \in BOOLEAN : BatchFinish(sent)
    \/ \E stop \in BOOLEAN : Backoff(stop)
    \/ \E i \in 1..MaxBatches, status \in BatchStatus : Acknowledge(i, status)
    \/ \E ok \in BOOLEAN : AckNext(ok)
    \/ AckStreamEnd
    \/ SystemShutdown

SpecJd == InitJd /\ [][NextJd]_vars




(***************************************************************************)
(* Concurrency and its serde form (sinks/util/service/concurrency.rs).     *)
(* A value handed to or by serde is a string, an unsigned or a signed      *)
(* integer, or something else (a bool); usize and u64 are the same width,  *)
(* so the `as` casts keep the number.                                      *)
(***************************************************************************)
\* Largest Fixed limit and largest wire integer tried.
MaxFixed == 40

\* enum Concurrency (lines 10-14)
ConcurrencyNone == [variant |-> "None", limit |-> 0]
ConcurrencyAdaptive == [variant |-> "Adaptive", limit |-> 0]
ConcurrencyFixed(n) == [variant |-> "Fixed", limit |-> n]
ConcurrencyValues ==
    {ConcurrencyNone, ConcurrencyAdaptive} \cup {ConcurrencyFixed(n) : n \in 0..MaxFixed}

WireStr(str) == [kind |-> "str", str |-> str, int |-> 0]
WireU64(n) == [kind |-> "u64", str |-> "", int |-> n]
WireI64(n) == [kind |-> "i64", str |-> "", int |-> n]
WireBool == [kind |-> "bool", str |-> "", int |-> 0]
\* what a configuration file may hold in place of a Concurrency
WireInputs ==
    {WireStr(str) : str \in {"adaptive", "none", "Adaptive", "fixed", ""}}
    \cup {WireU64(n) : n \in 0..MaxFixed}
    \cup {WireI64(0 - n) : n \in 1..MaxFixed}
    \cup {WireBool}

ConOk(v) == [tag |-> "Ok", value |-> v, error |-> ""]
ConErr(e) == [tag |-> "Err", value |-> ConcurrencyNone, error |-> e]

\* Serialize for Concurrency (lines 16-27)
serialize(self) ==
    IF self.variant = "None" THEN WireStr("none")
    ELSE IF self.variant = "Adaptive" THEN WireStr("adaptive")
    ELSE WireU64(self.limit)

\* visit_str (lines 70-78)
visit_str(value) ==
    IF value = "adaptive" THEN ConOk(ConcurrencyAdaptive)
    ELSE IF value = "none" THEN ConOk(ConcurrencyNone)
    ELSE ConErr("unknown_variant")

\* visit_i64 (lines 80-89)
visit_i64(value) ==
    IF value > 0 THEN ConOk(ConcurrencyFixed(value)) ELSE ConErr("invalid_value")

\* visit_u64 (lines 91-100)
visit_u64(value) ==
    IF value > 0 THEN ConOk(ConcurrencyFixed(value)) ELSE ConErr("invalid_value")

\* Deserialize for Concurrency (lines 55-105): deserialize_any calls the visitor
\* method of the value's kind; the methods the visitor does not define reject
deserialize(wire) ==
    IF wire.kind = "str" THEN visit_str(wire.str)
    ELSE IF wire.kind = "u64" THEN visit_u64(wire.int)
    ELSE IF wire.kind = "i64" THEN visit_i64(wire.int)
    ELSE ConErr("invalid_type")

InitCon ==
    /\ VrlIdle
    /\ CfgIdle
    /\ ReqIdle
    /\ JdIdle
    /\ con_back = None
    /\ \/ /\ kpc = "serialize"
          /\ \E v \in ConcurrencyValues : con_value = Some(v)
          /\ con_wire = None
       \/ /\ kpc = "deserialize"
          /\ con_value = None
          /\ \E w \in WireInputs : con_wire = Some(w)

\* serde_json::to_value(v) (line 116)
Serialize ==
    /\ kpc = "serialize"
    /\ con_wire' = Some(serialize(con_value[1]))
    /\ kpc' = "deserialize"
    /\ UNCHANGED <<con_value, con_back>>
    /\ UNCHANGED outside_con

\* serde_json::from_value::<Concurrency>(value) (line 117)
Deserialize ==
    /\ kpc = "deserialize"
    /\ con_back' = Some(deserialize(con_wire[1]))
    /\ kpc' = "done"
    /\ UNCHANGED <<con_value, con_wire>>
    /\ UNCHANGED outside_con

NextCon ==
    \/ Serialize
    \/ Deserialize

SpecCon == InitCon /\ [][NextCon]_vars


(***************************************************************************)
(* Claims about the expression compiler, checked under Spec.               *)
(***************************************************************************)
Done == vpc = "done"
\* the state the last root expression was compiled from (the loop resets the
\* pending fallible error first)
LastPre == [last.pre EXCEPT !.fallible_expression_error = None]
NotWarning(d) == d.severity /= "Warning"
IsWarning(d) == d.severity = "Warning"

\* C1: compile returns Ok only when no Error/Bug diagnostic was accumulated, and
\* then its list is the accumulated warnings; otherwise it returns Err with a
\* non-empty list that is exactly the accumulated Error/Bug diagnostics, in order.
C1_ResultInvariant ==
    Done =>
        /\ result.tag \in {"Ok", "Err"}
        /\ result.tag = "Ok" <=> \A i \in 1..Len(c.diagnostics) : IsWarning(c.diagnostics[i])
        /\ result.tag = "Ok" => result.list = c.diagnostics
        /\ result.tag = "Err" =>
              /\ result.list /= <<>>
              /\ result.list = SelectSeq(c.diagnostics, NotWarning)
              /\ result.expressions = <<>>

C1_Witness ==
    /\ Done
    /\ result.tag = "Err"
    /\ \E i \in 1..Len(result.list) : result.list[i].severity = "Bug"
    /\ \E i \in 1..Len(c.diagnostics) : IsWarning(c.diagnostics[i])

\* C3 as stated: once a root expression of type never was emitted, the root
\* expressions after it raise no diagnostic.
C3_NoDiagnosticsAfterTerminator ==
    (last.seen /\ last.term /= None) => c.diagnostics = last.pre.diagnostics

\* C3 as amended: a root expression that follows a never-typed root expression is
\* not added to the program (the returned Program ends with the terminator), while
\* it is still compiled and its diagnostics are recorded.
C3_Truncation ==
    /\ (last.seen /\ last.term /= None) =>
          /\ node_exprs = last.exprs
          /\ c.diagnostics = compile_expr(LastPre, last.node).st.diagnostics
                \o (IF last.some /\ LET r == compile_expr(LastPre, last.node)
                                    IN  r.st.fallible_expression_error /= None
                    THEN compile_expr(LastPre, last.node).st.fallible_expression_error
                    ELSE <<>>)
    /\ terminated_state /= None =>
          /\ node_exprs /= <<>>
          /\ is_never(type_def(node_exprs[Len(node_exprs)],
                               terminated_state[1].local, terminated_state[1].external))
    /\ (Done /\ result.tag = "Ok") => result.expressions = node_exprs

C3_Witness ==
    /\ Done
    /\ last.seen
    /\ last.term /= None
    /\ last.node = Var("z")
    /\ node_exprs = <<AbortNode>>
    /\ result.tag = "Err"
    /\ \E i \in 1..Len(result.list) : result.list[i].code = "undefined_variable"

\* the if statement compiled last, taken apart: the state after its predicate,
\* after its consequent, and after its alternative as the compiler compiled it
IfCase == last.seen /\ last.some /\ last.node.kind = "if" /\ vpc = "root"
IfPred == compile_predicate(LastPre, last.node.ps[1]).st
IfCons == compile_block(IfPred, last.node.xs[1]).st
IfAlt == compile_block([IfCons EXCEPT !.local = IfPred.local], last.node.ys[1]).st
\* the alternative compiled on the state before the if
IfAltFromPre == compile_block(IfPred, last.node.ys[1]).st

\* C4: after an if statement the external target type is the union of the branch
\* outcomes, each branch taken on the external state before the if (without an
\* else: the union of the consequent's outcome and the state before the if).
C4_ExternalWidening ==
    IfCase =>
        c.external =
            IF last.node.ys /= <<>>
            THEN external_merge(IfCons.external, IfAltFromPre.external)
            ELSE external_merge(IfPred.external, IfCons.external)

\* C5: after an if statement every local variable that existed before it has the
\* union of its type at the end of the consequent and its type at the end of the
\* alternative (without an else: its type before the if).
C5_LocalWidening ==
    IfCase =>
        \A x \in variable_idents(IfPred.local) :
            /\ c.local[x].def
            /\ c.local[x].kind =
                  IfCons.local[x].kind
                  \cup (IF last.node.ys /= <<>> THEN IfAlt.local[x].kind
                        ELSE IfPred.local[x].kind)

C5_Witness ==
    /\ IfCase
    /\ last.node = IfElse(Lit("boolean"), BodyX, BodyX2)
    /\ last.pre.local["x"] = Bound({"integer"})
    /\ c.local["x"] = Bound({"bytes", "boolean"})

\* C6: after compile_block, successful or not, the local environment binds exactly
\* the variables bound before the block, each with the type it had when the
\* block's last compiled expression was done.
BlockCase == last.seen /\ last.node.kind = "block" /\ vpc = "root"
BlockEnd == compile_exprs(LastPre, last.node.xs).st
C6_BlockScoping ==
    BlockCase =>
        /\ variable_idents(c.local) = variable_idents(last.pre.local)
        /\ \A x \in variable_idents(last.pre.local) : c.local[x] = BlockEnd.local[x]

C6_Witness ==
    /\ BlockCase
    /\ last.node = BlockNode(BodyZ)
    /\ ~last.some
    /\ last.pre.local["x"] = Bound({"integer"})
    /\ c.local["x"] = Bound({"boolean"})
    /\ BlockEnd.local["y"].def
    /\ ~c.local["y"].def

\* C7: a root expression `foo() ?? default` and an infallible assignment
\* `ok, err = foo()` add no diagnostic; a bare fallible call `foo()` adds exactly
\* one, the fallible-expression error.
FallibleCount(ds) == Cardinality({i \in 1..Len(ds) : ds[i].code = "fallible"})
C7_FallibilityClearing ==
    last.seen =>
        /\ (last.node.kind = "op" /\ last.node.id = "Err"
            /\ last.node.ps[1] = FooCall /\ last.node.xs[1].kind = "literal") =>
                last.some /\ c.diagnostics = last.pre.diagnostics
        /\ (last.node.kind = "assign_infallible" /\ last.node.xs[1] = FooCall) =>
                last.some /\ c.diagnostics = last.pre.diagnostics
        /\ last.node = FooCall =>
                /\ last.some
                /\ Len(c.diagnostics) = Len(last.pre.diagnostics) + 1
                /\ FallibleCount(c.diagnostics) = FallibleCount(last.pre.diagnostics) + 1

C7_Witness ==
    /\ last.seen
    /\ last.node = OpNode(FooCall, "Err", Lit("integer"))
    /\ last.some
    /\ node_exprs /= <<>>
    /\ FallibleCount(c.diagnostics) = 0
    /\ Done
    /\ result.tag = "Ok"

\* whether a compiled expression holds a call written with abort_on_error
RECURSIVE HasAbortOnErrorCall(_)
HasAbortOnErrorCall(e) ==
    \/ e.kind = "call" /\ e.flag
    \/ \E i \in 1..Len(e.ps) : HasAbortOnErrorCall(e.ps[i])
    \/ \E i \in 1..Len(e.xs) : HasAbortOnErrorCall(e.xs[i])
    \/ \E i \in 1..Len(e.ys) : HasAbortOnErrorCall(e.ys[i])
ProgramHasAbortOnErrorCall ==
    /\ Done
    /\ result.tag = "Ok"
    /\ \E i \in 1..Len(result.expressions) : HasAbortOnErrorCall(result.expressions[i])

\* C8 as stated: a program with an abort_on_error call is abortable.
C8_AbortOnErrorAbortable ==
    ProgramHasAbortOnErrorCall => result.info.abortable

\* C8 as amended: a program with an abort_on_error call is fallible
\* (ProgramInfo.fallible); abortable is set by abort expressions only.
C8_AbortOnErrorFallible ==
    ProgramHasAbortOnErrorCall => result.info.fallible

C8_Witness ==
    /\ ProgramHasAbortOnErrorCall
    /\ result.info.fallible
    /\ ~result.info.abortable


(***************************************************************************)
(* Claims about the topology compiler, checked under SpecCfg.              *)
(***************************************************************************)
CfgDone == cpc = "done"

\* C2: when compile returns Err, the list holds every error any phase reported;
\* in particular the errors accumulated before macro expansion are in it.
C2_AllPhaseErrorsReturned ==
    (CfgDone /\ cfg_result.tag = "Err") =>
        \A i \in 1..Len(errors) : InSeq(errors[i], cfg_result.errors)

\* the transforms and sinks of a builder, the components with inputs
Components(b) == b.transforms \o b.sinks
\* the candidates a raw input selects for component id, in candidate order
GlobSelection(raw, id, b) ==
    SelectSeq(glob_candidates(b), LAMBDA cd : matcher_matches(raw, cd) /\ cd /= id)
\* what a raw input becomes: its selection, or itself when it selects nothing
GlobSegment(raw, id, b) ==
    IF GlobSelection(raw, id, b) /= <<>> THEN GlobSelection(raw, id, b) ELSE <<raw>>
\* where the segment of raw input j starts in the expanded list
RECURSIVE SegmentStart(_, _, _)
SegmentStart(t, j, b) ==
    IF j = 1 THEN 1
    ELSE SegmentStart(t, j - 1, b) + Len(GlobSegment(t.inputs[j - 1], t.key, b))

\* C9 as stated: a raw input that matches at least one candidate as a glob
\* pattern is replaced by exactly the matching candidates other than the
\* component itself (here for components with a single raw input).
C9_MatchedReplacedBySelection ==
    [][cpc = "globs" =>
        \A i \in 1..Len(Components(builder)) :
            LET t == Components(builder)[i]
                cands == glob_candidates(builder)
            IN  (/\ Len(t.inputs) = 1
                 /\ pattern_new_ok(t.inputs[1])
                 /\ \E k \in 1..Len(cands) : pattern_matches(t.inputs[1], cands[k]))
                => Components(builder')[i].inputs = GlobSelection(t.inputs[1], t.key, builder)
      ]_vars

\* C9 as amended: a raw input that matches at least one candidate other than the
\* component itself is replaced by exactly those candidates, in candidate order
\* (sources, transforms, named ports); the expansions follow each other in
\* raw-input order; a raw input that matches no other candidate stays as it is.
C9_GlobExpansion ==
    [][cpc = "globs" =>
        /\ Len(Components(builder')) = Len(Components(builder))
        /\ \A i \in 1..Len(Components(builder)) :
            LET t == Components(builder)[i]
            IN  /\ Components(builder')[i].key = t.key
                /\ Components(builder')[i].inputs =
                      Flatten([j \in 1..Len(t.inputs) |-> GlobSegment(t.inputs[j], t.key, builder)])
      ]_vars

C9_Witness ==
    /\ cpc = "shape"
    /\ builder.sources = <<sFoo1, sFoo2, sBar>>
    /\ Len(builder.transforms) = 1
    /\ builder.transforms[1].key = sFoos
    /\ builder.transforms[1].inputs = <<sFoo1, sFoo2>>
    /\ builder.sinks[1].inputs = <<sFoos, sBar>>

\* C10: a raw input that matches no candidate other than the component itself is
\* kept verbatim, once, where its expansion would stand; a non-empty input list
\* stays non-empty; glob expansion reports no error.
C10_UnmatchedFallback ==
    [][cpc = "globs" =>
        /\ errors' = errors
        /\ cfg_result' = cfg_result
        /\ cpc' = "shape"
        /\ \A i \in 1..Len(Components(builder)) :
            LET t == Components(builder)[i]
                out == Components(builder')[i].inputs
            IN  /\ t.inputs /= <<>> => out /= <<>>
                /\ Len(out) >= Len(t.inputs)
                /\ \A j \in 1..Len(t.inputs) :
                      GlobSelection(t.inputs[j], t.key, builder) = <<>> =>
                          /\ SegmentStart(t, j, builder) <= Len(out)
                          /\ out[SegmentStart(t, j, builder)] = t.inputs[j]
                          /\ (j < Len(t.inputs) =>
                                SegmentStart(t, j + 1, builder) = SegmentStart(t, j, builder) + 1)
                          /\ (j = Len(t.inputs) => Len(out) = SegmentStart(t, j, builder))
      ]_vars

C10_Witness ==
    /\ cpc = "shape"
    /\ builder.sources = <<sFoo1, sFoo2, sBar>>
    /\ builder.sinks[1].inputs = <<gNone, sBar>>
    /\ errors = <<>>

\* whether an IndexMap holds a key, and the entry it holds for it
HasKey(m, key) == \E i \in 1..Len(m) : m[i].key = key
EntryOf(m, key) == m[CHOOSE i \in 1..Len(m) : m[i].key = key]
\* the key of child i of parent P
ChildKey(P, x, i) == P \o Dot \o x.children[i].name

\* the wiring of a transform P with inputs I and config `inner`, read off the
\* transforms and the expansion map that expand_macros left: a transform that
\* does not expand stands under its key with inputs I; one that expands is gone,
\* the expansion map lists its children, and each child is wired in its turn
RECURSIVE Wired(_, _, _, _, _)
Wired(P, I, inner, transforms, exps) ==
    LET x == TransformConfig(inner)
    IN  IF x.expand = "some"
        THEN /\ ~HasKey(transforms, P)
             /\ HasKey(exps, P)
             /\ EntryOf(exps, P).children = [i \in 1..Len(x.children) |-> ChildKey(P, x, i)]
             /\ \A i \in 1..Len(x.children) :
                   Wired(ChildKey(P, x, i),
                         IF x.type = Parallel \/ i = 1 THEN I ELSE <<ChildKey(P, x, i - 1)>>,
                         x.children[i].inner, transforms, exps)
        ELSE /\ HasKey(transforms, P)
             /\ EntryOf(transforms, P) = TransformOuter(P, I, inner)
             /\ ~HasKey(exps, P)

\* C11: when expand_macros succeeds, every transform P with inputs I that expands
\* is removed, its children stand under the keys P.ci, parallel children all have
\* inputs I, serial children have I (the first) or the key of the child before
\* them, and the expansion map maps P to its child keys in expansion order.
C11_MacroWiring ==
    [][(cpc = "macros" /\ cpc' = "globs") =>
        /\ \A i \in 1..Len(builder.transforms) :
              LET t == builder.transforms[i]
              IN  Wired(t.key, t.inputs, t.inner, builder'.transforms, expansions')
        /\ DistinctKeys(builder'.transforms)
        /\ DistinctKeys(expansions')
      ]_vars

C11_Witness ==
    /\ cpc = "globs"
    /\ expansions = <<[key |-> sR, children |-> <<sR \o Dot \o sA, sR \o Dot \o sB>>]>>
    /\ HasKey(builder.transforms, sR \o Dot \o sB)
    /\ EntryOf(builder.transforms, sR \o Dot \o sB).inputs = <<sR \o Dot \o sA>>
    /\ EntryOf(builder.transforms, sR \o Dot \o sA).inputs = <<sBar>>
    /\ ~HasKey(builder.transforms, sR)

(***************************************************************************)
(* Claims about the requirement validator, checked under SpecReq.          *)
(***************************************************************************)
RqDone == rpc = "done"
Configured(id) == \E i \in 1..Len(requirement) : requirement[i].identifier = id
MeaningFor(id) ==
    requirement[CHOOSE i \in 1..Len(requirement) : requirement[i].identifier = id].meaning
\* the errors validate recorded, and returned, for an identifier
RecordedFor(id) == SelectSeq(rq_errors, LAMBDA e : e.identifier = id)
ReturnedFor(id) == SelectSeq(rq_result.errors, LAMBDA e : e.identifier = id)
\* what the Definition says about an identifier
IsDuplicate(id) == definition.invalid_meaning[id] /= None
IsBound(id) == definition.meaning[id] /= None
KindKnownFor(id) ==
    IF definition.collection[definition.meaning[id][1]] = None THEN KindAny
    ELSE definition.collection[definition.meaning[id][1]][1]
\* an identifier fails when it is a duplicate, bound to a path whose kind the
\* required kind does not cover, or unbound although required
Failing(id) ==
    /\ Configured(id)
    /\ \/ IsDuplicate(id)
       \/ ~IsDuplicate(id) /\ IsBound(id) /\ ~(KindKnownFor(id) \subseteq MeaningFor(id).kind)
       \/ ~IsDuplicate(id) /\ ~IsBound(id) /\ ~MeaningFor(id).optional

ValidateOutcome ==
    /\ rq_next = Len(requirement) + 1
    /\ \A id \in Identifiers :
          /\ Len(RecordedFor(id)) <= 1
          /\ Len(RecordedFor(id)) = 1 <=> Failing(id)
    /\ rq_result.tag \in {"Ok", "Err"}
    /\ rq_result.tag = "Ok" <=> ~ \E id \in Identifiers : Failing(id)
    /\ rq_result.tag = "Err" => rq_result.errors = rq_errors /\ rq_errors /= <<>>

\* C12: validate visits every configured meaning, records at most one error per
\* identifier and one for every failing identifier, returns Err with all of them
\* or Ok(()) when there is none, and leaves the Requirement and the Definition
\* as they were.
C12_ValidateComplete ==
    [][/\ rpc' \in {"loop", "done"} => requirement' = requirement /\ definition' = definition
       /\ rpc' = "done" => ValidateOutcome'
      ]_vars

C12_Witness ==
    /\ RqDone
    /\ rq_result.tag = "Err"
    /\ Len(rq_result.errors) = 2
    /\ rq_result.errors[1].identifier = "bar"
    /\ rq_result.errors[1].tag = "MeaningDuplicate"
    /\ rq_result.errors[2] = MeaningMissing("foo")

\* C13: for a configured identifier the Definition reports as invalid, validate
\* returns exactly one error, the MeaningDuplicate with the identifier and its
\* path set, whether the meaning is required or optional.
C13_DuplicatePrecedence ==
    RqDone =>
        \A id \in Identifiers :
            (Configured(id) /\ IsDuplicate(id)) =>
                ReturnedFor(id) = <<MeaningDuplicate(id, definition.invalid_meaning[id][1])>>

C13_Witness ==
    /\ RqDone
    /\ Configured("foo")
    /\ MeaningFor("foo") = SemanticMeaning({"boolean"}, FALSE)
    /\ IsDuplicate("foo")
    /\ rq_result.errors = <<MeaningDuplicate("foo", {"foo", "bar"})>>

\* C14: for a configured identifier that is no duplicate and that no path
\* carries, validate returns exactly one MeaningMissing when the meaning is
\* required and nothing when it is optional.
C14_MissingVersusOptional ==
    RqDone =>
        \A id \in Identifiers :
            (Configured(id) /\ ~IsDuplicate(id) /\ ~IsBound(id)) =>
                ReturnedFor(id) =
                    IF MeaningFor(id).optional THEN <<>> ELSE <<MeaningMissing(id)>>

C14_Witness ==
    /\ RqDone
    /\ definition = DefinitionEmpty
    /\ requirement = optional_meaning(required_meaning(RequirementEmpty, "bar", KindAny),
                                      "foo", KindAny)
    /\ rq_result = [tag |-> "Err", errors |-> <<MeaningMissing("bar")>>]

\* C15: for a configured identifier bound to a path, validate returns exactly one
\* MeaningKind{identifier, want, got} when the required kind is no superset of the
\* kind known at the path ("any" when none is known) and nothing otherwise, for
\* required and optional meanings alike.
C15_KindCheck ==
    RqDone =>
        \A id \in Identifiers :
            (Configured(id) /\ ~IsDuplicate(id) /\ IsBound(id)) =>
                ReturnedFor(id) =
                    IF KindKnownFor(id) \subseteq MeaningFor(id).kind THEN <<>>
                    ELSE <<MeaningKind(id, MeaningFor(id).kind, KindKnownFor(id))>>

C15_Witness ==
    /\ RqDone
    /\ requirement = optional_meaning(RequirementEmpty, "foo", {"boolean"})
    /\ definition.meaning["foo"] = Some("foo")
    /\ definition.collection["foo"] = Some({"integer"})
    /\ rq_result.errors = <<MeaningKind("foo", {"boolean"}, {"integer"})>>

\* compile as one function agrees with compile phase by phase
ConfigCompileAgrees == cpc = "done" => cfg_result = config_compile(builder0)

NegativeAcks == {i \in 1..acked : finalizer[i].status /= "Delivered"}
\* the cursors of the first n batches handed to the finalizer
FirstCursors(n) == [i \in 1..n |-> finalizer[i].cursor]
\* batch_size 1, every record an event, the sink delivers two events and fails
\* the third, and the task has seen all three acknowledgements
FailsAfterTwo ==
    /\ batch_size = 1
    /\ acked = 3
    /\ FirstCursors(3) = <<CursorOf(1), CursorOf(2), CursorOf(3)>>
    /\ finalizer[1].status = "Delivered"
    /\ finalizer[2].status = "Delivered"
    /\ finalizer[3].status /= "Delivered"

\* C17: the tokens handed to StatefulCheckpointer::set are the cursors of the
\* Delivered batches the acknowledgement stream yielded, in the order the batches
\* were finalized; the stored cursor (and, when no write failed, the checkpoint
\* file) is the last of them; once a batch that is not Delivered is yielded it is
\* the last one the task handles, the task has exited and the shutdown future of
\* the source is triggered; and when the sink delivers two events and fails the
\* third with batch_size 1, the checkpoint is the cursor of the second event.
C17_CheckpointOnlyDelivered ==
    /\ ck_writes = FirstCursors(acked - Cardinality(NegativeAcks))
    /\ ck_writes /= <<>> =>
           /\ checkpointer.cursor = Some(ck_writes[Len(ck_writes)])
           /\ ~io_failed => Checkpointer_get(checkpointer.file) = checkpointer.cursor
    /\ NegativeAcks /= {} =>
           /\ NegativeAcks = {acked}
           /\ ack_task = "exited"
    /\ ack_task = "exited" => tripwire /\ shutdown_ready
    /\ FailsAfterTwo =>
           /\ checkpointer.cursor = Some(CursorOf(2))
           /\ ~io_failed => Checkpointer_get(checkpointer.file) = Some(CursorOf(2))

\* the sink failed the third event after two were delivered and checkpointed,
\* the first checkpoint being longer than the second
C17_Witness ==
    /\ FailsAfterTwo
    /\ Len(finalizer) = 3
    /\ ack_task = "exited"
    /\ tripwire
    /\ ck_writes = <<CursorOf(1), CursorOf(2)>>
    /\ ~io_failed
    /\ Len(checkpointer.file) > Len(CursorOf(2)) + 1
    /\ Checkpointer_get(checkpointer.file) = Some(CursorOf(2))

(***************************************************************************)
(* Claims about Concurrency, checked under SpecCon.                        *)
(***************************************************************************)
\* C18: deserializing the serialized form of any Concurrency value succeeds and
\* returns that value.
C18_RoundTrip ==
    (kpc = "done" /\ con_value /= None) => con_back = Some(ConOk(con_value[1]))

\* what holds instead: the round trip returns the value except for Fixed(0),
\* which the deserializer rejects
C18_RoundTripPositive ==
    (kpc = "done" /\ con_value /= None) =>
        con_back = Some(IF con_value[1] = ConcurrencyFixed(0)
                        THEN ConErr("invalid_value")
                        ELSE ConOk(con_value[1]))

\* Fixed(0) was serialized as the number 0 and its deserialization failed
C18_Witness ==
    /\ kpc = "done"
    /\ con_value = Some(ConcurrencyFixed(0))
    /\ con_wire = Some(WireU64(0))
    /\ con_back = Some(ConErr("invalid_value"))

(***************************************************************************)
(* Further claims about the expression compiler, checked under Spec.       *)
(***************************************************************************)
\* C19: the alternative of an if statement is compiled on the local environment
\* and the external target type as they were before the consequent: after the if,
\* locals and external type are the merge of the consequent's outcome with the
\* outcome of the alternative compiled on the state before the consequent.
C19_BranchIsolation ==
    (IfCase /\ last.node.ys /= <<>>) =>
        /\ c.local = local_merge(IfAltFromPre.local, IfCons.local)
        /\ c.external = external_merge(IfCons.external, IfAltFromPre.external)

\* the types a state holds: what terminated_state stores
TypeState(st) == [local |-> st.local, external |-> st.external]
\* a step of the root loop on an expression / on a parser error / the return
RootExprStep == vpc = "root" /\ nroots' = nroots + 1 /\ last'.seen
RootErrorStep == vpc = "root" /\ nroots' = nroots + 1 /\ ~last'.seen
ReturnStep == vpc = "root" /\ vpc' = "done"
\* the root expression just compiled was emitted and is never-typed
Terminating ==
    /\ last'.some
    /\ node_exprs' /= <<>>
    /\ is_never(type_def(node_exprs'[Len(node_exprs')], c'.local, c'.external))
\* the first k expressions of a block compile and end never-typed
NeverAt(st, nodes, k) ==
    LET ends(r) ==
            /\ r.expr /= None
            /\ is_never(type_def(r.expr[1][Len(r.expr[1])], r.st.local, r.st.external))
    IN  ends(compile_exprs(st, SubSeq(nodes, 1, k)))
\* the block cut after its k-th expression
CutBlock(node, k) == [node EXCEPT !.xs = SubSeq(node.xs, 1, k)]

\* C20: the first never-typed root expression stores the local environment and
\* the external target type as they are right after it was compiled, no later root
\* expression or parser error replaces what is stored, and when compile_root_exprs
\* returns, local environment and external type are the stored ones (unchanged if
\* no root expression terminated); a block with a never-typed expression compiles
\* exactly as the block that ends there: what follows is not compiled.
C20_CommittedAtTerminator ==
    [][/\ RootExprStep =>
             /\ terminated_state /= None => terminated_state' = terminated_state
             /\ terminated_state = None =>
                    terminated_state' =
                        IF Terminating THEN Some(TypeState(c')) ELSE None
             /\ last'.node.kind = "block" =>
                    \A k \in 1..(Len(last'.node.xs) - 1) :
                        NeverAt(LastPre', last'.node.xs, k) =>
                            \E n \in {compile_root_expr(c, node_exprs, terminated_state,
                                                        CutBlock(last'.node, k))} :
                                /\ c' = n.c
                                /\ node_exprs' = n.node_exprs
                                /\ terminated_state' = n.terminated_state
       /\ RootErrorStep => terminated_state' = terminated_state
       /\ ReturnStep =>
             TypeState(c') = IF terminated_state /= None THEN terminated_state[1]
                             ELSE TypeState(c)
      ]_vars

\* a block that aborts before an assignment was the first root expression, the
\* assignment in it was not compiled, a later root assignment was compiled and
\* discarded, and compile_root_exprs returned the state stored at the block
C20_Witness ==
    /\ vpc = "done"
    /\ last.seen /\ last.some
    /\ last.term /= None
    /\ last.term[1] = TypeState(last.pre)
    /\ last.node = AssignVar("x", Lit("bytes"))
    /\ last.pre.local["x"] = Bound({"integer"})
    /\ c.local["x"] = Bound({"integer"})
    /\ TypeState(c) = last.term[1]
    /\ Len(node_exprs) = 1
    /\ node_exprs[1].kind = "block"
    /\ Len(node_exprs[1].xs) = 1
    /\ node_exprs[1].xs[1].kind = AbortNode.kind

\* whether a node holds an error-coalescing op or an infallible assignment, the
\* two places that clear the pending fallible error
RECURSIVE HasClear(_)
HasClear(e) ==
    \/ e.kind = "op" /\ e.id = "Err"
    \/ e.kind = "assign_infallible"
    \/ \E i \in 1..Len(e.ps) : HasClear(e.ps[i])
    \/ \E i \in 1..Len(e.xs) : HasClear(e.xs[i])
    \/ \E i \in 1..Len(e.ys) : HasClear(e.ys[i])
\* a fallible-expression error that is pending before an expression is compiled
PendingBefore == ExprError("fallible", <<"pending", "">>)
\* the pending error after compiling a node from a state
PendingAfter(st, node) ==
    LET pending(r) == r.st.fallible_expression_error IN pending(compile_expr(st, node))
\* the pending error and the diagnostics after compiling the root expression of
\* the step from the state before it, nothing pending
RootPending == PendingAfter(LastPre', last'.node)
RootDiagnostics ==
    LET diagnostics(r) == r.st.diagnostics IN diagnostics(compile_expr(LastPre', last'.node))

\* C21: a root expression is compiled with no fallible error pending, whatever
\* the root expression before it left; an error that is pending when a
\* sub-expression is compiled is still the pending one afterwards unless the
\* sub-expression holds an error-coalescing op or an infallible assignment (the
\* error set by the left operand of an op is the one pending after the op); and a
\* root expression adds one fallible-expression diagnostic, the pending one, if it
\* compiled and an error is pending, none otherwise, leaving nothing pending when
\* it compiled.
C21_FallibleChain ==
    [][RootExprStep =>
          /\ c'.diagnostics =
                 RootDiagnostics \o (IF last'.some THEN RootPending ELSE <<>>)
          /\ FallibleCount(c'.diagnostics) =
                 FallibleCount(c.diagnostics)
                 + (IF last'.some /\ RootPending /= None THEN 1 ELSE 0)
          /\ last'.some => c'.fallible_expression_error = None
          /\ ~HasClear(last'.node) =>
                 PendingAfter([c EXCEPT !.fallible_expression_error = Some(PendingBefore)],
                              last'.node) = Some(PendingBefore)
          /\ (last'.node.kind = "op" /\ ~HasClear(last'.node)
              /\ PendingAfter(LastPre', last'.node.ps[1]) /= None) =>
                 RootPending = PendingAfter(LastPre', last'.node.ps[1])
      ]_vars

\* `foo() == 1` was compiled after a root expression that failed with an error
\* pending: one fallible-expression diagnostic was added, the one of foo()
C21_Witness ==
    /\ last.seen /\ last.some
    /\ last.node = OpNode(FooCall, "Eq", Lit("integer"))
    /\ last.pre.fallible_expression_error /= None
    /\ c.diagnostics = Append(last.pre.diagnostics, ExprError("fallible", Label(FooCall)))
    /\ c.fallible_expression_error = None

\* the (target, path) keys of the targets of an assignment, in the order the
\* assignment names them
AssignmentTargets(node) ==
    (IF node.target = "noop" THEN <<>> ELSE <<TargetKey(node.target, node.id)>>)
    \o (IF node.kind = "assign_infallible" THEN <<TargetKey("internal", node.id2)>>
        ELSE <<>>)
\* the right-hand side of the assignment of the step, compiled from the state
\* before the assignment
RhsOfStep == compile_expr(LastPre', last'.node.xs[1])
\* the key a variable reference or a query looks up in the skip list
ReferenceKey(node) ==
    IF node.kind = "variable" THEN TargetKey("internal", node.id)
    ELSE TargetKey(node.target, node.id)
IsReference(node) == node.kind \in {"variable", "query"}
ReferenceDefined(st, node) ==
    (node.kind = "query" /\ node.target = "external") \/ st.local[node.id].def

\* C22: an assignment whose right-hand side fails to compile returns no
\* expression and appends each of its targets to the skip list; a variable
\* reference or query whose (target, path) is in the skip list returns no
\* expression and adds no diagnostic; one that is not in the skip list compiles if
\* it is defined and otherwise adds exactly the undefined-variable diagnostic.
C22_CascadeSuppression ==
    [][RootExprStep =>
          /\ (last'.node.kind \in {"assign", "assign_infallible"}
              /\ RhsOfStep.expr = None) =>
                 /\ ~last'.some
                 /\ c'.skip_missing_query_target =
                        RhsOfStep.st.skip_missing_query_target
                        \o AssignmentTargets(last'.node)
                 /\ c'.diagnostics = RhsOfStep.st.diagnostics
          /\ (IsReference(last'.node)
              /\ InSeq(ReferenceKey(last'.node), c.skip_missing_query_target)) =>
                 /\ ~last'.some
                 /\ c'.diagnostics = c.diagnostics
          /\ (IsReference(last'.node)
              /\ ~InSeq(ReferenceKey(last'.node), c.skip_missing_query_target)) =>
                 IF ReferenceDefined(c, last'.node)
                 THEN last'.some /\ c'.diagnostics = c.diagnostics
                 ELSE /\ ~last'.some
                      /\ c'.diagnostics =
                             Append(c.diagnostics,
                                    ExprError("undefined_variable",
                                              Label(Var(last'.node.id))))
      ]_vars

\* `x = z` failed on the undefined z, and the reference to the still undefined x
\* that followed returned nothing and reported nothing
C22_Witness ==
    /\ last.seen /\ ~last.some
    /\ last.node = Var("x")
    /\ ~last.pre.local["x"].def
    /\ last.pre.skip_missing_query_target = <<TargetKey("internal", "x")>>
    /\ Len(last.pre.diagnostics) = 1
    /\ last.pre.diagnostics[1].code = "undefined_variable"
    /\ c.diagnostics = last.pre.diagnostics

\* a call with a closure was the root expression compiled last
ClosureCase == last.seen /\ last.node.kind = "call" /\ last.node.ys /= <<>> /\ vpc = "root"
ClosureParams == {last.node.ps[i].id : i \in 1..Len(last.node.ps)}

\* C23: after a call with a closure, whether or not the closure body compiled,
\* every closure parameter is bound in the local environment exactly as it was
\* before the call: unbound if it was unbound, with its former type if it
\* shadowed a variable.
C23_ClosureParamsDoNotLeak ==
    ClosureCase => \A v \in ClosureParams : c.local[v] = last.pre.local[v]

\* what holds: the parameters are as before the call whenever the closure body
\* compiled
C23_ClosureParamsRestored ==
    (ClosureCase /\ last.some) => \A v \in ClosureParams : c.local[v] = last.pre.local[v]

\* a closure |x, y| whose body assigned a boolean to x compiled; x, an integer
\* before the call, is an integer again and y is unbound
C23_Witness ==
    /\ ClosureCase /\ last.some
    /\ last.node = CallClosure("each", <<>>, <<"x", "y">>, BodyX2)
    /\ last.pre.local["x"] = Bound({"integer"})
    /\ c.local["x"] = Bound({"integer"})
    /\ ~c.local["y"].def

\* the external paths a compiled expression queries, in compile order (a call of
\* `get` counts as a query of the root path, made before its arguments)
RECURSIVE QueriedPaths(_), QueriedPathsOf(_)
QueriedPaths(e) ==
    (IF e.kind = "query" /\ e.target = "external" THEN <<e.id>>
     ELSE IF e.kind = "call" /\ e.id = "get" THEN <<RootPath>> ELSE <<>>)
    \o QueriedPathsOf(e.ps) \o QueriedPathsOf(e.xs) \o QueriedPathsOf(e.ys)
QueriedPathsOf(es) ==
    IF es = <<>> THEN <<>> ELSE QueriedPaths(Head(es)) \o QueriedPathsOf(Tail(es))

\* the external paths a compiled expression assigns, in compile order (an
\* assignment is recorded after its right-hand side)
RECURSIVE AssignedPaths(_), AssignedPathsOf(_)
AssignedPaths(e) ==
    AssignedPathsOf(e.ps) \o AssignedPathsOf(e.xs) \o AssignedPathsOf(e.ys)
    \o (IF e.kind \in {"assign", "assign_infallible"} /\ e.target = "external"
        THEN <<e.id>> ELSE <<>>)
AssignedPathsOf(es) ==
    IF es = <<>> THEN <<>> ELSE AssignedPaths(Head(es)) \o AssignedPathsOf(Tail(es))

IsPrefix(s, t) == Len(s) <= Len(t) /\ SubSeq(t, 1, Len(s)) = s

\* C24: a root expression that compiles appends to external_queries exactly the
\* external paths its queries read and to external_assignments exactly the
\* external paths its assignments write, in compile order and with repeats; no
\* step removes or reorders a recorded path; and the ProgramInfo of a returned
\* Program carries the two lists as they stand when compile returns.
C24_ExternalPathTracking ==
    [][/\ RootExprStep =>
            LET tracked(r) ==
                    r.expr /= None =>
                        /\ c'.external_queries =
                               c.external_queries \o QueriedPaths(r.expr[1])
                        /\ c'.external_assignments =
                               c.external_assignments \o AssignedPaths(r.expr[1])
            IN  tracked(compile_expr(LastPre', last'.node))
       /\ IsPrefix(c.external_queries, c'.external_queries)
       /\ IsPrefix(c.external_assignments, c'.external_assignments)
       /\ (ReturnStep /\ result'.tag = "Ok") =>
              /\ result'.info.target_queries = c.external_queries
              /\ result'.info.target_assignments = c.external_assignments]_vars

\* `.a` then `.b = .a` compiled to a Program: path a is listed twice as queried,
\* path b once as assigned
C24_Witness ==
    /\ Done /\ result.tag = "Ok"
    /\ last.node = AssignExt("b", QueryExt("a"))
    /\ result.info.target_queries = <<"a", "a">>
    /\ result.info.target_assignments = <<"b">>

(***************************************************************************)
(* Claims about macro expansion, checked under SpecMacro.                  *)
(***************************************************************************)
\* a transform and everything it expands to, parents before their children
RECURSIVE ExpansionTree(_, _)
ExpansionTree(key, inner) ==
    LET x == TransformConfig(inner)
    IN  <<[key |-> key, inner |-> inner]>>
        \o (IF x.expand /= "some" THEN <<>>
            ELSE Flatten([i \in 1..Len(x.children) |->
                            ExpansionTree(key \o Dot \o x.children[i].name,
                                          x.children[i].inner)]))
ExpansionForest(ts) ==
    Flatten([i \in 1..Len(ts) |-> ExpansionTree(ts[i].key, ts[i].inner)])
ExpandsTo(node, how) == TransformConfig(node.inner).expand = how
\* the transforms whose expand() fails, and those that do not expand
FailedExpansions(ts) == SelectSeq(ExpansionForest(ts), LAMBDA n : ExpandsTo(n, "err"))
PlainTransforms(ts) == SelectSeq(ExpansionForest(ts), LAMBDA n : ExpandsTo(n, "none"))
\* no key stands for two transforms
NoKeyCollision(ts) == DistinctKeys(ExpansionForest(ts))
MacroStep == cpc = "macros" /\ cpc' /= "macros"

\* C25: expand_macros fails iff the expand() of some transform fails (a user's
\* transform or a child created by expansion); it then holds exactly one error
\* for each such transform and no other, every transform that does not expand
\* has still been moved to the expanded transforms, and compile returns Err with
\* these errors.  (Stated for builders in which no key stands for two
\* transforms; see C28.)
C25_ExpansionErrorsCollected ==
    [][MacroStep =>
        /\ cpc' = "done" => (cfg_result'.tag = "Err" /\ cfg_result'.errors /= <<>>)
        /\ cpc' /= "done" => (cpc' = "globs" /\ cfg_result' = cfg_result)
        /\ NoKeyCollision(builder.transforms) =>
            LET failed == FailedExpansions(builder.transforms)
                plain == PlainTransforms(builder.transforms)
            IN  /\ cpc' = "done" <=> failed /= <<>>
                /\ cpc' = "done" =>
                      /\ Len(cfg_result'.errors) = Len(failed)
                      /\ \A i \in 1..Len(failed) :
                            InSeq(ConfigError("expand", failed[i].key), cfg_result'.errors)
                /\ Len(builder'.transforms) = Len(plain)
                /\ \A i \in 1..Len(plain) :
                      /\ HasKey(builder'.transforms, plain[i].key)
                      /\ EntryOf(builder'.transforms, plain[i].key).inner = plain[i].inner
      ]_vars

\* r expands to r.a and r.b after the expand() of foos failed: one error, for
\* foos, and the children of r are in place
C25_Witness ==
    /\ CfgDone
    /\ builder0.transforms = <<TransformOuter(sR, <<sFoo1>>, "par"),
                               TransformOuter(sFoos, <<sFoo1>>, "bad")>>
    /\ cfg_result = CfgErr(<<ConfigError("expand", sFoos)>>)
    /\ HasKey(builder.transforms, sRA)
    /\ HasKey(builder.transforms, sR \o Dot \o sB)

(***************************************************************************)
(* Further claims about config::compile, checked under SpecCfg.            *)
(***************************************************************************)
HasPhase(errs, phase) == \E i \in 1..Len(errs) : errs[i].phase = phase

\* C26: when Graph::new fails, compile returns at once: the result is Err with
\* the errors of name, shape and resource validation, in that order, followed by
\* the graph-construction errors; typecheck is reached only when Graph::new
\* succeeded, so the result holds no typecheck error.
C26_GraphFailureShortCircuits ==
    [][/\ (cpc = "graph" /\ graph_new(builder) /= <<>>) =>
            /\ cpc' = "done"
            /\ cfg_result' = CfgErr(check_names(builder0) \o check_shape(builder)
                                    \o check_resources(builder) \o graph_new(builder))
            /\ ~HasPhase(cfg_result'.errors, "type")
       /\ cpc' = "typecheck" => graph_new(builder') = <<>>
      ]_vars

\* a sink input that names nothing fails Graph::new; the result holds the name
\* error of t.x and the graph error, and not the type mismatch of the builder
C26_Witness ==
    /\ CfgDone
    /\ builder.mismatch
    /\ cfg_result.tag = "Err"
    /\ Len(cfg_result.errors) = 2
    /\ cfg_result.errors[1] = ConfigError("name", sTX)
    /\ cfg_result.errors[2] = ConfigError("graph", sBaz)

\* the phases of compile in the order of the code
PhaseRank(pc) ==
    CASE pc = "names" -> 1 [] pc = "macros" -> 2 [] pc = "globs" -> 3
      [] pc = "shape" -> 4 [] pc = "resources" -> 5 [] pc = "graph" -> 6
      [] pc = "typecheck" -> 7 [] pc = "assemble" -> 8 [] OTHER -> 9
ErrorsOfPhase(errs, phase) == SelectSeq(errs, LAMBDA e : e.phase = phase)
NoMacroLeft(b) ==
    \A i \in 1..Len(b.transforms) : TransformConfig(b.transforms[i].inner).expand = "none"

\* C27: the phases run in the order names, macros, globs, shape, resources,
\* graph, typecheck, assembly.  Name validation sees the keys the user supplied,
\* so no key created by expansion is ever reported by it; glob expansion starts
\* from the builder that macro expansion left, in which nothing expands any more
\* and the children are candidates; shape and resource validation see the
\* builder after glob expansion, and so do graph construction and typecheck.
C27_PhaseOrdering ==
    [][/\ PhaseRank(cpc') > PhaseRank(cpc)
       /\ cpc' /= "done" => PhaseRank(cpc') = PhaseRank(cpc) + 1
       /\ cpc = "names" => builder = builder0
       /\ cpc /= "names" => ErrorsOfPhase(errors', "name") = check_names(builder0)
       /\ cpc = "macros" => builder = builder0
       /\ cpc = "globs" =>
            /\ builder = expand_macros(builder0).builder
            /\ NoMacroLeft(builder)
            /\ builder' = expand_globs(builder)
       /\ PhaseRank(cpc) > 3 =>
            /\ builder = expand_globs(expand_macros(builder0).builder)
            /\ builder' = builder
       /\ cpc = "shape" => errors' = errors \o check_shape(builder)
       /\ cpc = "resources" => errors' = errors \o check_resources(builder)
       /\ cpc = "typecheck" => errors' = errors \o graph_typecheck(builder)
      ]_vars

\* r expanded to r.a and r.b; compile returned Ok although r.a holds a dot, and
\* the sink's glob selected the child r.a
C27_Witness ==
    /\ CfgDone
    /\ cfg_result.tag = "Ok"
    /\ HasKey(builder0.transforms, sR)
    /\ HasKey(cfg_result.config.transforms, sRA)
    /\ InSeq(sRA, cfg_result.config.sinks[1].inputs)

\* what expand_macros leaves of the transforms it was given: one that does not
\* expand is kept as it was, one whose expand() fails has its error, one that
\* expands has its entry in the expansion map; and as many transforms result as
\* the expansion trees have transforms that do not expand
NothingReplaced(ts, transforms, exps, errs) ==
    /\ \A i \in 1..Len(ts) :
          /\ ExpandsTo(ts[i], "none") =>
                (HasKey(transforms, ts[i].key) /\ EntryOf(transforms, ts[i].key) = ts[i])
          /\ ExpandsTo(ts[i], "err") => InSeq(ConfigError("expand", ts[i].key), errs)
          /\ ExpandsTo(ts[i], "some") => HasKey(exps, ts[i].key)
    /\ Len(transforms) = Len(PlainTransforms(ts))
\* the result of the expand_macros call made in this step
MacroResult == expand_macros(builder)
UserKeysValid(b) == \A i \in 1..Len(b.transforms) : ~contains_dot(b.transforms[i].key)

HasError(diags) == \E i \in 1..Len(diags) : is_error(diags[i])

\* C29: a root expression for which compile_expr yields nothing (the skip list
\* included) leaves an Error or Bug diagnostic recorded and emits nothing; a
\* recorded Error or Bug stays recorded and makes compile return Err.  A root
\* expression that compiles is appended to the emitted expressions, in source
\* order, unless a terminating one was emitted before it; a parser error emits
\* nothing; and an Ok Program holds exactly the emitted expressions, or a single
\* Noop when there is none.
C29_NoSilentPartialSuccess ==
    [][/\ (RootExprStep /\ ~last'.some) =>
            (HasError(c'.diagnostics) /\ node_exprs' = node_exprs)
       /\ (RootExprStep /\ last'.some) =>
            LET emitted(r) ==
                    /\ r.expr /= None
                    /\ node_exprs' = IF terminated_state = None
                                     THEN Append(node_exprs, r.expr[1])
                                     ELSE node_exprs
            IN  emitted(compile_expr(LastPre', last'.node))
       /\ RootErrorStep => node_exprs' = node_exprs
       /\ HasError(c.diagnostics) => HasError(c'.diagnostics)
       /\ ReturnStep =>
            /\ HasError(c.diagnostics) => result'.tag = "Err"
            /\ result'.tag = "Ok" =>
                  result'.expressions = IF node_exprs = <<>> THEN <<Noop>> ELSE node_exprs
      ]_vars

\* `x = z` failed on the undefined z and put x on the skip list; the root
\* expression `x` then yielded nothing, without a diagnostic of its own
C29_Witness ==
    /\ vpc = "root"
    /\ last.seen /\ ~last.some
    /\ last.node = Var("x")
    /\ InSeq(TargetKey("internal", "x"), c.skip_missing_query_target)
    /\ Len(c.diagnostics) = 1
    /\ is_error(c.diagnostics[1])
    /\ c.diagnostics = last.pre.diagnostics

\* whether an expression holds an abort
RECURSIVE HasAbort(_)
HasAbort(e) ==
    \/ e.kind = "abort"
    \/ \E i \in 1..Len(e.ps) : HasAbort(e.ps[i])
    \/ \E i \in 1..Len(e.xs) : HasAbort(e.xs[i])
    \/ \E i \in 1..Len(e.ys) : HasAbort(e.ys[i])

\* C30: the ProgramInfo of a returned Program lists exactly the external paths
\* that the Program's expressions query and assign, and is abortable only if one
\* of them holds an abort; root expressions after a terminating one add nothing.
C30_MetadataOfEmittedProgram ==
    (Done /\ result.tag = "Ok") =>
        /\ result.info.target_queries = QueriedPathsOf(result.expressions)
        /\ result.info.target_assignments = AssignedPathsOf(result.expressions)
        /\ result.info.abortable => \E i \in 1..Len(result.expressions) :
                                        HasAbort(result.expressions[i])

\* what holds: the metadata covers the emitted expressions, whose paths come
\* first in the two lists
C30_MetadataCoversProgram ==
    (Done /\ result.tag = "Ok") =>
        /\ IsPrefix(QueriedPathsOf(result.expressions), result.info.target_queries)
        /\ IsPrefix(AssignedPathsOf(result.expressions), result.info.target_assignments)
        /\ (\E i \in 1..Len(result.expressions) : HasAbort(result.expressions[i]))
               => result.info.abortable

============================================================================
